---- MODULE Spec2Model ----
(***************************************************************************)
(* A model of docid: the field normalizers, the identifier generator and   *)
(* the document pipeline with its duplicate cache.                         *)
(*                                                                         *)
(* Python strings are TLA+ strings; a character is a string of length 1.   *)
(* The Polish letters of the code's keywords have no ASCII form; the model *)
(* writes each as an ASCII character that the texts do not otherwise use,  *)
(* with the letter's own code point, letter case and UTF-8 encoding:       *)
(*     l with stroke  (U+0142, upper case U+0141)   "}"  and  "{"           *)
(*     z with dot     (U+017C, upper case U+017B)   "~"  and  "^"           *)
(*     o with acute   (U+00F3, upper case U+00D3)   "@"  and  "&"           *)
(*     a with ogonek  (U+0105, upper case U+0104)   "["  and  "]"           *)
(*     e with ogonek  (U+0119, upper case U+0118)   "$"  and  "!"           *)
(* The Python value None is the string None below, which no input          *)
(* contains.                                                               *)
(***************************************************************************)
EXTENDS Integers, Sequences, FiniteSets, TLC

VARIABLES
    op,             \* the operation applied last
    args,           \* its arguments
    result,         \* what it returned
    libc_pads_year, \* whether the C library's strftime pads %Y to four digits
    prefix,         \* DocumentIDGenerator.prefix of the generator in use
    hash_seed,      \* the string hash seed of the running Python process
    processed_ids,  \* DocumentPipeline._processed_ids of the pipeline in use
    history,        \* the process calls made so far, over all pipelines and runs
    run,            \* the number of the running Python process: 1, and 1 more at a restart
    in_flight,      \* the process call each thread is in: where it is, and its locals
    _default_pipeline   \* the module's default pipeline: its engine and its _processed_ids

environment == <<libc_pads_year, prefix>>
pipeline_vars == <<hash_seed, processed_ids, history, run, in_flight, _default_pipeline>>
vars == <<op, args, result, environment, pipeline_vars>>

(***************************************************************************)
(* Python's str and re primitives, as the code uses them.                  *)
(***************************************************************************)

None == "<None>"

\* Python truthiness of an Optional[str]: None and "" are false.
Truthy(x) == x # None /\ x # ""

\* The exception of a call that raises ValueError.
RaisedValueError == "<ValueError>"

Digits == {"0", "1", "2", "3", "4", "5", "6", "7", "8", "9"}

\* int(c) of a decimal digit
digit_value ==
    ("0" :> 0) @@ ("1" :> 1) @@ ("2" :> 2) @@ ("3" :> 3) @@ ("4" :> 4) @@
    ("5" :> 5) @@ ("6" :> 6) @@ ("7" :> 7) @@ ("8" :> 8) @@ ("9" :> 9)

UpperLetters ==
    {"A", "B", "C", "D", "E", "F", "G", "H", "I", "J", "K", "L", "M",
     "N", "O", "P", "Q", "R", "S", "T", "U", "V", "W", "X", "Y", "Z"}

\* \s of re and the characters str.strip() removes.
Whitespace == {" ", "\t", "\n", "\r"}

upper_map ==
    ("a" :> "A") @@ ("b" :> "B") @@ ("c" :> "C") @@ ("d" :> "D") @@
    ("e" :> "E") @@ ("f" :> "F") @@ ("g" :> "G") @@ ("h" :> "H") @@
    ("i" :> "I") @@ ("j" :> "J") @@ ("k" :> "K") @@ ("l" :> "L") @@
    ("m" :> "M") @@ ("n" :> "N") @@ ("o" :> "O") @@ ("p" :> "P") @@
    ("q" :> "Q") @@ ("r" :> "R") @@ ("s" :> "S") @@ ("t" :> "T") @@
    ("u" :> "U") @@ ("v" :> "V") @@ ("w" :> "W") @@ ("x" :> "X") @@
    ("y" :> "Y") @@ ("z" :> "Z") @@ ("}" :> "{") @@ ("~" :> "^") @@
    ("@" :> "&") @@ ("[" :> "]") @@ ("$" :> "!")

\* s[i], 1-based.
CharAt(s, i) == SubSeq(s, i, i)

\* s.upper().  The operators that rewrite a string character by character
\* split it in halves, so that their depth is the logarithm of its length.
RECURSIVE str_upper(_)
str_upper(s) ==
    IF Len(s) <= 1
    THEN IF s \in DOMAIN upper_map THEN upper_map[s] ELSE s
    ELSE str_upper(SubSeq(s, 1, Len(s) \div 2))
         \o str_upper(SubSeq(s, (Len(s) \div 2) + 1, Len(s)))

RECURSIVE str_lstrip(_, _)
str_lstrip(s, chars) ==
    IF s # "" /\ Head(s) \in chars THEN str_lstrip(Tail(s), chars) ELSE s

RECURSIVE str_rstrip(_, _)
str_rstrip(s, chars) ==
    IF s # "" /\ CharAt(s, Len(s)) \in chars
    THEN str_rstrip(SubSeq(s, 1, Len(s) - 1), chars)
    ELSE s

\* s.strip() with chars = Whitespace, s.strip('/') with chars = {"/"}.
str_strip(s, chars) == str_rstrip(str_lstrip(s, chars), chars)

\* re.sub('[chars]', '', s): every character of the class is deleted.
RECURSIVE re_sub_delete(_, _)
re_sub_delete(s, chars) ==
    IF Len(s) <= 1
    THEN IF s \in chars THEN "" ELSE s
    ELSE re_sub_delete(SubSeq(s, 1, Len(s) \div 2), chars)
         \o re_sub_delete(SubSeq(s, (Len(s) \div 2) + 1, Len(s)), chars)

\* re.sub('[chars]', repl, s): a replacement per character, not per run.
RECURSIVE re_sub_each(_, _, _)
re_sub_each(s, chars, repl) ==
    IF s = "" THEN ""
    ELSE (IF Head(s) \in chars THEN repl ELSE Head(s)) \o re_sub_each(Tail(s), chars, repl)

\* re.sub('[chars]+', repl, s): every maximal run of the class becomes repl.
RECURSIVE re_sub_runs(_, _, _)
re_sub_runs(s, chars, repl) ==
    IF s = "" THEN ""
    ELSE IF Head(s) \in chars
         THEN repl \o re_sub_runs(str_lstrip(s, chars), chars, repl)
         ELSE Head(s) \o re_sub_runs(Tail(s), chars, repl)

\* s.replace(old, new) for a one-character old.
RECURSIVE str_replace(_, _, _)
str_replace(s, old, new) ==
    IF Len(s) <= 1
    THEN IF s = old THEN new ELSE s
    ELSE str_replace(SubSeq(s, 1, Len(s) \div 2), old, new)
         \o str_replace(SubSeq(s, (Len(s) \div 2) + 1, Len(s)), old, new)

\* The strings of at most n characters over an alphabet.
RECURSIVE StringsUpTo(_, _)
StringsUpTo(alphabet, n) ==
    IF n = 0 THEN {""}
    ELSE LET shorter == StringsUpTo(alphabet, n - 1)
         IN  shorter \cup {s \o c : s \in shorter, c \in alphabet}

(***************************************************************************)
(* NIPValidator                                                            *)
(***************************************************************************)

\* No country code stripped.
KeepCountryPrefix(s) == s

\* re.sub(r'^[A-Z]{2}', '', s)
StripCountryPrefix(s) ==
    IF Len(s) >= 2 /\ CharAt(s, 1) \in UpperLetters /\ CharAt(s, 2) \in UpperLetters
    THEN SubSeq(s, 3, Len(s))
    ELSE s

NIPValidator_normalize(nip) ==
    IF ~Truthy(nip) THEN ""
    ELSE LET cleaned == StripCountryPrefix(str_upper(nip))
         IN  re_sub_delete(cleaned, Whitespace \cup {"-", "."})

\* "#" stands for the superscript two: a character that is a digit for
\* str.isdigit() and not a decimal digit for int().
SuperscriptTwo == "#"

\* s.isdigit()
str_isdigit(s) ==
    s # "" /\ \A i \in 1..Len(s) : CharAt(s, i) \in Digits \cup {SuperscriptTwo}

\* str(b) of a bool
bool(b) == IF b THEN "True" ELSE "False"

nip_weights == <<6, 5, 7, 2, 3, 4, 5, 6, 7>>

\* sum(int(nip[i]) * weights[i] for i in range(n))
RECURSIVE nip_checksum(_, _)
nip_checksum(nip, n) ==
    IF n = 0 THEN 0
    ELSE (digit_value[CharAt(nip, n)] * nip_weights[n]) + nip_checksum(nip, n - 1)

\* The checksum test of validate on a normalized NIP; int() raises ValueError on
\* a character that is not a decimal digit.
validated(nip) ==
    IF Len(nip) # 10 \/ ~str_isdigit(nip) THEN bool(FALSE)
    ELSE IF \E i \in 1..10 : CharAt(nip, i) \notin Digits THEN RaisedValueError
    ELSE bool(nip_checksum(nip, 9) % 11 = digit_value[CharAt(nip, 10)])

NIPValidator_validate(nip) == validated(NIPValidator_normalize(nip))

(***************************************************************************)
(* InvoiceNumberNormalizer                                                 *)
(***************************************************************************)

InvoiceNumberNormalizer_normalize(number) ==
    IF ~Truthy(number) THEN ""
    ELSE LET upper     == str_strip(str_upper(number), Whitespace)
             separated == re_sub_runs(upper, Whitespace \cup {"-", "_"}, "/")
             collapsed == re_sub_runs(separated, {"/"}, "/")
         IN  str_strip(collapsed, {"/"})

(***************************************************************************)
(* DateNormalizer                                                          *)
(***************************************************************************)

\* int(s) for a string of digits, with the leading blank strptime's %d allows.
RECURSIVE int_of(_)
int_of(s) ==
    IF s = "" THEN 0
    ELSE IF CharAt(s, Len(s)) \in Digits
         THEN 10 * int_of(SubSeq(s, 1, Len(s) - 1)) + digit_value[CharAt(s, Len(s))]
         ELSE int_of(SubSeq(s, 1, Len(s) - 1))

\* s.zfill(width)
RECURSIVE str_zfill(_, _)
str_zfill(s, width) == IF Len(s) >= width THEN s ELSE str_zfill("0" \o s, width)

\* DateNormalizer.FORMATS, each format split into its directives and literals.
FORMATS ==
    << <<"%Y", "-", "%m", "-", "%d">>,
       <<"%d", "-", "%m", "-", "%Y">>,
       <<"%d", ".", "%m", ".", "%Y">>,
       <<"%d", "/", "%m", "/", "%Y">>,
       <<"%Y", "/", "%m", "/", "%d">>,
       <<"%d", " ", "%m", " ", "%Y">>,
       <<"%Y", "%m", "%d">> >>

NonZeroDigits == Digits \ {"0"}

\* The lengths, in the order the regular expression tries them, of the texts
\* that one element of a format can match at position pos of s:
\*   %Y  \d\d\d\d
\*   %m  1[0-2]|0[1-9]|[1-9]
\*   %d  3[0-1]|[1-2]\d|0[1-9]|[1-9]| [1-9]
\*   white space in the format  \s+  (greedy)
\*   any other character  itself
RECURSIVE WhitespaceRun(_, _)
WhitespaceRun(s, pos) ==
    IF pos <= Len(s) /\ CharAt(s, pos) \in Whitespace
    THEN 1 + WhitespaceRun(s, pos + 1)
    ELSE 0

RECURSIVE Descending(_)
Descending(n) == IF n = 0 THEN <<>> ELSE <<n>> \o Descending(n - 1)

DirectiveLengths(element, s, pos) ==
    LET c1 == IF pos <= Len(s) THEN CharAt(s, pos) ELSE ""
        c2 == IF pos + 1 <= Len(s) THEN CharAt(s, pos + 1) ELSE ""
        one == IF c1 \in NonZeroDigits THEN <<1>> ELSE <<>>
    IN  CASE element = "%Y" ->
                IF /\ pos + 3 <= Len(s)
                   /\ \A i \in pos .. pos + 3 : CharAt(s, i) \in Digits
                THEN <<4>> ELSE <<>>
          [] element = "%m" ->
                (IF \/ c1 = "1" /\ c2 \in {"0", "1", "2"}
                    \/ c1 = "0" /\ c2 \in NonZeroDigits
                 THEN <<2>> ELSE <<>>) \o one
          [] element = "%d" ->
                (IF \/ c1 = "3" /\ c2 \in {"0", "1"}
                    \/ c1 \in {"1", "2"} /\ c2 \in Digits
                    \/ c1 = "0" /\ c2 \in NonZeroDigits
                 THEN <<2>> ELSE <<>>)
                \o one
                \o (IF c1 = " " /\ c2 \in NonZeroDigits THEN <<2>> ELSE <<>>)
          [] element = " " -> Descending(WhitespaceRun(s, pos))
          [] OTHER -> IF c1 = element THEN <<1>> ELSE <<>>

NoMatch == [ok |-> FALSE, Y |-> "", m |-> "", d |-> "", end |-> 0]

\* format_regex.match(data_string): the first match in the order of the
\* alternatives, from element k of the format and position pos of s on.
RECURSIVE regex_match(_, _, _, _, _)
RECURSIVE regex_try(_, _, _, _, _, _, _)
regex_match(format, k, s, pos, found) ==
    IF k > Len(format)
    THEN [found EXCEPT !.ok = TRUE, !.end = pos - 1]
    ELSE regex_try(format, k, s, pos, found, DirectiveLengths(format[k], s, pos), 1)

regex_try(format, k, s, pos, found, lengths, i) ==
    IF i > Len(lengths) THEN NoMatch
    ELSE LET text == SubSeq(s, pos, pos + lengths[i] - 1)
             group == CASE format[k] = "%Y" -> [found EXCEPT !.Y = text]
                        [] format[k] = "%m" -> [found EXCEPT !.m = text]
                        [] format[k] = "%d" -> [found EXCEPT !.d = text]
                        [] OTHER -> found
             rest == regex_match(format, k + 1, s, pos + lengths[i], group)
         IN  IF rest.ok THEN rest
             ELSE regex_try(format, k, s, pos, found, lengths, i + 1)

is_leap(year) == year % 4 = 0 /\ (year % 100 # 0 \/ year % 400 = 0)

days_in_month(year, month) ==
    CASE month = 2 -> IF is_leap(year) THEN 29 ELSE 28
      [] month \in {4, 6, 9, 11} -> 30
      [] OTHER -> 31

ValueError == [ok |-> FALSE, year |-> 0, month |-> 0, day |-> 0]

\* datetime.strptime(data_string, format): ValueError when the text does not
\* match, when text remains after the match, or when the day is not one of
\* the month (datetime's years start at 1).
datetime(year, month, day) ==
    IF year < 1 \/ day > days_in_month(year, month) THEN ValueError
    ELSE [ok |-> TRUE, year |-> year, month |-> month, day |-> day]

found_date(found, data_string) ==
    IF ~found.ok \/ found.end # Len(data_string) THEN ValueError
    ELSE datetime(int_of(found.Y), int_of(found.m), int_of(found.d))

strptime(data_string, format) ==
    found_date(regex_match(format, 1, data_string, 1, NoMatch), data_string)

\* parsed.strftime('%Y-%m-%d').  The C library formats %Y: glibc writes a year
\* below 1000 without leading zeros, other libraries pad it to four digits.
\* pads_year says which; the operators that format a date pass it down.
strftime(parsed, pads_year) ==
    (IF pads_year THEN str_zfill(ToString(parsed.year), 4) ELSE ToString(parsed.year))
    \o "-" \o str_zfill(ToString(parsed.month), 2)
    \o "-" \o str_zfill(ToString(parsed.day), 2)

\* re.findall(r'\d+', s): the maximal runs of digits, in order.
RECURSIVE DigitRunLength(_, _)
DigitRunLength(s, pos) ==
    IF pos <= Len(s) /\ CharAt(s, pos) \in Digits
    THEN 1 + DigitRunLength(s, pos + 1)
    ELSE 0

RECURSIVE re_findall_digits(_)
re_findall_digits(s) ==
    IF s = "" THEN <<>>
    ELSE LET n == DigitRunLength(s, 1)
         IN  IF n = 0 THEN re_findall_digits(Tail(s))
             ELSE <<SubSeq(s, 1, n)>> \o re_findall_digits(SubSeq(s, n + 1, Len(s)))

\* The fallback of normalize: guess the order from the lengths of the runs.
date_of_runs(digits, cleaned) ==
    IF Len(digits) >= 3 /\ Len(digits[1]) = 4
    THEN digits[1] \o "-" \o str_zfill(digits[2], 2) \o "-" \o str_zfill(digits[3], 2)
    ELSE IF Len(digits) >= 3 /\ Len(digits[3]) = 4
    THEN digits[3] \o "-" \o str_zfill(digits[2], 2) \o "-" \o str_zfill(digits[1], 2)
    ELSE cleaned

DateFallback(cleaned) == date_of_runs(re_findall_digits(cleaned), cleaned)

\* The loop over FORMATS, from format i on: the first that parses wins.
RECURSIVE TryFormats(_, _, _)
\* One turn of the loop: parsed is what strptime made of format i.
TryFormat(parsed, cleaned, i, pads_year) ==
    IF parsed.ok THEN strftime(parsed, pads_year)
    ELSE TryFormats(cleaned, i + 1, pads_year)

TryFormats(cleaned, i, pads_year) ==
    IF i > Len(FORMATS) THEN DateFallback(cleaned)
    ELSE TryFormat(strptime(cleaned, FORMATS[i]), cleaned, i, pads_year)

DateNormalizer_normalize(date_str, pads_year) ==
    TryFormats(str_strip(date_str, Whitespace), 1, pads_year)

(***************************************************************************)
(* AmountNormalizer, with the decimal module's Decimal as far as normalize *)
(* uses it: the constructor from a string, quantize to two places with     *)
(* ROUND_HALF_UP under the default context, and str.  A Decimal is a sign, *)
(* a coefficient (a string of digits) and an exponent.                     *)
(***************************************************************************)

\* The default context's precision: decimal.getcontext().prec
DecimalPrecision == 28

\* What a call returns when it raises decimal.InvalidOperation.
InvalidOperation == "<InvalidOperation>"

RECURSIVE Zeros(_)
Zeros(n) == IF n <= 0 THEN "" ELSE "0" \o Zeros(n - 1)

\* str(int(digits)): no leading zeros.
StripLeadingZeros(digits) ==
    LET stripped == str_lstrip(digits, {"0"})
    IN  IF stripped = "" THEN "0" ELSE stripped

next_digit ==
    ("0" :> "1") @@ ("1" :> "2") @@ ("2" :> "3") @@ ("3" :> "4") @@ ("4" :> "5") @@
    ("5" :> "6") @@ ("6" :> "7") @@ ("7" :> "8") @@ ("8" :> "9")

\* str(int(digits) + 1)
RECURSIVE Increment(_)
Increment(digits) ==
    IF digits = "" THEN "1"
    ELSE LET last == CharAt(digits, Len(digits))
             init == SubSeq(digits, 1, Len(digits) - 1)
         IN  IF last = "9" THEN Increment(init) \o "0"
             ELSE init \o next_digit[last]

\* Decimal(text): surrounding white space and every underscore are dropped;
\* then  [-+]? ( digits [. digits] [E [-+] digits] | Inf[inity] | [s]NaN digits ),
\* in any letter case, with at least one digit in the number.
\* The digits of "NaN digits" and "sNaN digits"; "x" for another word.
nan_tail(word) ==
    IF Len(word) >= 3 /\ SubSeq(word, 1, 3) = "NAN" THEN SubSeq(word, 4, Len(word))
    ELSE IF Len(word) >= 4 /\ SubSeq(word, 1, 4) = "SNAN" THEN SubSeq(word, 5, Len(word))
    ELSE "x"

DecimalParsed(sign, body, word, n_int, after_int, n_frac, after_frac, has_exp, exp_negative, exp_digits) ==
    CASE /\ n_int > 0 \/ n_frac > 0
         /\ IF has_exp
            THEN /\ exp_digits # ""
                 /\ DigitRunLength(exp_digits, 1) = Len(exp_digits)
            ELSE after_frac = "" ->
                [kind |-> "finite", sign |-> sign,
                 int |-> StripLeadingZeros(SubSeq(body, 1, n_int)
                                           \o SubSeq(after_int, 2, n_frac + 1)),
                 exp |-> (IF exp_negative THEN 0 - int_of(exp_digits)
                                          ELSE int_of(exp_digits)) - n_frac]
      [] word \in {"INF", "INFINITY"} ->
                [kind |-> "inf", sign |-> sign, int |-> "0", exp |-> 0]
      [] DigitRunLength(nan_tail(word), 1) = Len(nan_tail(word)) ->
                [kind |-> IF Head(word) = "S" THEN "snan" ELSE "nan",
                 sign |-> sign, int |-> nan_tail(word), exp |-> 0]
      [] OTHER ->
                [kind |-> InvalidOperation, sign |-> 0, int |-> "", exp |-> 0]

DecimalExponent(sign, body, n_int, after_int, n_frac, after_frac, has_exp, exp_text, exp_signed) ==
    DecimalParsed(sign, body, str_upper(body), n_int, after_int, n_frac, after_frac, has_exp,
                  exp_signed /\ Head(exp_text) = "-",
                  IF exp_signed THEN Tail(exp_text) ELSE exp_text)

DecimalAfterFraction(sign, body, n_int, after_int, n_frac, after_frac, has_exp) ==
    DecimalExponent(sign, body, n_int, after_int, n_frac, after_frac, has_exp,
                    IF has_exp THEN Tail(after_frac) ELSE "",
                    has_exp /\ Tail(after_frac) # "" /\ Head(Tail(after_frac)) \in {"-", "+"})

DecimalFraction(sign, body, n_int, after_int, has_dot, n_frac, after_frac) ==
    DecimalAfterFraction(sign, body, n_int, after_int, n_frac, after_frac,
                         after_frac # "" /\ Head(after_frac) \in {"E", "e"})

DecimalInteger(sign, body, n_int, after_int, has_dot, n_frac) ==
    DecimalFraction(sign, body, n_int, after_int, has_dot, n_frac,
                    IF has_dot THEN SubSeq(after_int, n_frac + 2, Len(after_int))
                               ELSE after_int)

DecimalUnsigned(sign, body, n_int, after_int) ==
    DecimalInteger(sign, body, n_int, after_int,
                   after_int # "" /\ Head(after_int) = ".",
                   IF after_int # "" /\ Head(after_int) = "."
                   THEN DigitRunLength(after_int, 2) ELSE 0)

DecimalSigned(sign, body) ==
    DecimalUnsigned(sign, body, DigitRunLength(body, 1),
                    SubSeq(body, DigitRunLength(body, 1) + 1, Len(body)))

DecimalStripped(t, signed) ==
    DecimalSigned(IF signed /\ Head(t) = "-" THEN 1 ELSE 0, IF signed THEN Tail(t) ELSE t)

DecimalOfText(t) == DecimalStripped(t, t # "" /\ Head(t) \in {"-", "+"})

Decimal(text) == DecimalOfText(re_sub_delete(str_strip(text, Whitespace), {"_"}))

\* Decimal._rescale(-2, ROUND_HALF_UP) of a finite non-zero value: pad with
\* zeros, or drop digits and add one when the first dropped digit is 5 or more.
rescale(value) ==
    IF value.exp >= -2
    THEN [value EXCEPT !.int = value.int \o Zeros(value.exp + 2), !.exp = -2]
    ELSE LET digits  == Len(value.int) + value.exp + 2
             source  == IF digits < 0 THEN "1" ELSE value.int
             keep    == IF digits < 0 THEN 0 ELSE digits
             kept    == IF keep = 0 THEN "0" ELSE SubSeq(source, 1, keep)
             changed == CharAt(source, keep + 1) \in {"5", "6", "7", "8", "9"}
         IN  [value EXCEPT !.int = IF changed THEN Increment(kept) ELSE kept,
                           !.exp = -2]

\* value.quantize(Decimal('0.01'), rounding=ROUND_HALF_UP)
quantize(value) ==
    CASE value.kind = InvalidOperation -> value
      [] value.kind = "nan" -> value
      [] value.kind \in {"snan", "inf"} -> [value EXCEPT !.kind = InvalidOperation]
      [] value.int = "0" -> [value EXCEPT !.exp = -2]
      [] Len(value.int) + value.exp - 1 + 2 + 1 > DecimalPrecision ->
            [value EXCEPT !.kind = InvalidOperation]
      [] OTHER ->
            LET ans == rescale(value)
            IN  IF Len(ans.int) > DecimalPrecision
                THEN [value EXCEPT !.kind = InvalidOperation]
                ELSE ans

\* str(value) of a quantized value (its exponent is -2), or of a NaN.
decimal_str(value) ==
    LET sign == IF value.sign = 1 THEN "-" ELSE ""
        left == Len(value.int) - 2
    IN  CASE value.kind = InvalidOperation -> InvalidOperation
          [] value.kind = "nan" -> sign \o "NaN" \o value.int
          [] left <= 0 -> sign \o "0." \o Zeros(0 - left) \o value.int
          [] OTHER -> sign \o SubSeq(value.int, 1, left) \o "."
                      \o SubSeq(value.int, left + 1, Len(value.int))

\* The position of the last "." of s, 0 when there is none: s.rsplit('.', 1)
RECURSIVE str_rfind_dot(_)
str_rfind_dot(s) ==
    IF s = "" THEN 0
    ELSE IF CharAt(s, Len(s)) = "." THEN Len(s)
    ELSE str_rfind_dot(SubSeq(s, 1, Len(s) - 1))

\* The text Decimal() is given on the string path of normalize.
AmountCleaned(text) ==
    LET no_currency == re_sub_delete(str_upper(text), {"Z", "{", "P", "L", "N"} \cup Whitespace)
        dotted      == str_replace(no_currency, ",", ".")
        dot         == str_rfind_dot(dotted)
    IN  IF dot > 0
        THEN re_sub_delete(SubSeq(dotted, 1, dot - 1), {"."} \cup Whitespace)
             \o "." \o SubSeq(dotted, dot + 1, Len(dotted))
        ELSE re_sub_delete(dotted, {"."} \cup Whitespace)

\* An amount is [is_number, text]: a string, or an int or float with text = str(amount).
\* The result is InvalidOperation when the call raises it.
\* The except clause of the string path: "0.00" for InvalidOperation.
normalized_amount(amount, decimal_val) ==
    IF ~amount.is_number /\ decimal_val = InvalidOperation THEN "0.00" ELSE decimal_val

AmountNormalizer_normalize(amount) ==
    normalized_amount(amount,
                      decimal_str(quantize(Decimal(IF amount.is_number THEN amount.text
                                                   ELSE AmountCleaned(amount.text)))))

Number(text) == [is_number |-> TRUE, text |-> text]
String(text) == [is_number |-> FALSE, text |-> text]

(***************************************************************************)
(* DocumentIDGenerator.                                                    *)
(*                                                                         *)
(* hashlib.sha256 is modelled by a digest of the same shape: a function of *)
(* the UTF-8 bytes of its input that yields 64 lower-case hexadecimal      *)
(* digits.  Properties that rest on SHA-256 having no collisions are       *)
(* stated on canonical strings, never on this digest.                      *)
(***************************************************************************)

DocumentType ==
    ("INVOICE" :> "FV") @@ ("RECEIPT" :> "PAR") @@ ("CONTRACT" :> "UMO") @@
    ("BANK_STATEMENT" :> "WB") @@ ("CORRECTION" :> "KOR") @@ ("PROFORMA" :> "PRO") @@
    ("ADVANCE" :> "ZAL") @@ ("BILL" :> "RAC") @@ ("CASH_IN" :> "KP") @@
    ("CASH_OUT" :> "KW") @@ ("DEBIT_NOTE" :> "NK") @@ ("DELIVERY_NOTE" :> "WZ") @@
    ("RECEIPT_NOTE" :> "PZ") @@ ("EXPENSE_REPORT" :> "DEL") @@ ("OTHER" :> "DOC")

\* The members of the enumeration in definition order.
DocumentTypeOrder ==
    <<"INVOICE", "RECEIPT", "CONTRACT", "BANK_STATEMENT", "CORRECTION", "PROFORMA",
      "ADVANCE", "BILL", "CASH_IN", "CASH_OUT", "DEBIT_NOTE", "DELIVERY_NOTE",
      "RECEIPT_NOTE", "EXPENSE_REPORT", "OTHER">>

\* The code points of the characters of chars, which are consecutive from base.
CodePoints(chars, base) ==
    [c \in {CharAt(chars, i) : i \in 1..Len(chars)} |->
        base - 1 + CHOOSE i \in 1..Len(chars) : CharAt(chars, i) = c]

\* ord(c): the code point of a character.
ord ==
    CodePoints("0123456789", 48) @@ CodePoints("ABCDEFGHIJKLMNOPQRSTUVWXYZ", 65)
    @@ CodePoints("abcdefghijklmnopqrstuvwxyz", 97) @@ CodePoints("+,-./", 43)
    @@ ("\t" :> 9) @@ ("\n" :> 10) @@ ("\r" :> 13) @@ (" " :> 32) @@ (":" :> 58)
    @@ ("_" :> 95) @@ ("|" :> 124) @@ ("<" :> 60) @@ (">" :> 62)
    @@ ("%" :> 37) @@ ("{" :> 321) @@ ("}" :> 322) @@ ("^" :> 379) @@ ("~" :> 380)
    @@ ("&" :> 211) @@ ("@" :> 243) @@ ("]" :> 260) @@ ("[" :> 261)
    @@ ("!" :> 280) @@ ("$" :> 281) @@ CodePoints("()", 40)

\* s.encode('utf-8') as a sequence of bytes.
RECURSIVE encode_utf8(_)
encode_utf8(s) ==
    CASE s = "" -> <<>>
      [] Len(s) = 1 -> IF ord[s] < 128 THEN <<ord[s]>>
                       ELSE <<192 + (ord[s] \div 64), 128 + (ord[s] % 64)>>
      [] OTHER -> encode_utf8(SubSeq(s, 1, Len(s) \div 2))
                  \o encode_utf8(SubSeq(s, (Len(s) \div 2) + 1, Len(s)))

\* a < b for Python strings: by code point, a proper prefix first.
RECURSIVE str_lt(_, _)
str_lt(a, b) ==
    CASE b = "" -> FALSE
      [] a = "" -> TRUE
      [] Head(a) # Head(b) -> ord[Head(a)] < ord[Head(b)]
      [] OTHER -> str_lt(Tail(a), Tail(b))

\* [a, b] in the order given.
unsorted(a, b) == <<a, b>>

\* sorted([a, b])
sorted(a, b) == IF str_lt(b, a) THEN <<b, a>> ELSE <<a, b>>

\* sep.join(parts)
RECURSIVE str_join(_, _)
str_join(sep, parts) ==
    CASE Len(parts) = 0 -> ""
      [] Len(parts) = 1 -> parts[1]
      [] OTHER -> parts[1] \o sep \o str_join(sep, Tail(parts))

\* s.split(sep) for a one-character sep.
RECURSIVE str_split(_, _)
str_split(s, sep) ==
    IF s = "" THEN <<"">>
    ELSE LET rest == str_split(Tail(s), sep)
         IN  IF Head(s) = sep THEN <<"">> \o rest
             ELSE <<Head(s) \o rest[1]>> \o Tail(rest)

HexDigits == "0123456789abcdef"

\* '%04x' % word
hex4(word) ==
    LET digit(n) == CharAt(HexDigits, n + 1)
    IN  digit(word \div 4096) \o digit((word \div 256) % 16)
        \o digit((word \div 16) % 16) \o digit(word % 16)

DigestModulus == 65521
DigestWords == 16

\* A 16-bit polynomial in the bytes.
RECURSIVE digest_poly(_, _, _)
digest_poly(bytes, multiplier, state) ==
    CASE bytes = <<>> -> state
      [] Len(bytes) = 1 -> ((state * multiplier) + bytes[1] + 1) % DigestModulus
      [] OTHER ->
            LET half == digest_poly(SubSeq(bytes, 1, Len(bytes) \div 2), multiplier, state)
            IN  IF half < DigestModulus   \* always: the first half is evaluated first
                THEN digest_poly(SubSeq(bytes, (Len(bytes) \div 2) + 1, Len(bytes)),
                                 multiplier, half)
                ELSE half

\* The k-th and later 16-bit words of the digest, each mixed from the two before it.
RECURSIVE digest_words(_, _, _)
digest_words(k, w1, w2) ==
    IF k > DigestWords THEN ""
    ELSE hex4(w1) \o digest_words(k + 1, w2, ((w2 * 75) + w1 + k) % DigestModulus)

\* hashlib.sha256(data).digest().hex()
sha256_hex(data) ==
    digest_words(1, digest_poly(data, 257, 7919), digest_poly(data, 263, 39208))

\* DocumentIDGenerator._generate_id, for a generator configured with prefix.
generate_id(prefix_, document_type, canonical_string) ==
    LET hash_hex == str_upper(SubSeq(sha256_hex(encode_utf8(canonical_string)), 1, 16))
    IN  prefix_ \o "-" \o DocumentType[document_type] \o "-" \o hash_hex

\* The canonical string each recipe joins; InvalidOperation when the amount
\* normalizer raises it.
joined(before, amount, after) ==
    IF amount = InvalidOperation THEN InvalidOperation
    ELSE str_join("|", before \o <<amount>> \o after)

invoice_canonical(seller_nip, invoice_number, issue_date, gross_amount, pads_year) ==
    joined(<<NIPValidator_normalize(seller_nip),
             InvoiceNumberNormalizer_normalize(invoice_number),
             DateNormalizer_normalize(issue_date, pads_year)>>,
           AmountNormalizer_normalize(gross_amount), <<>>)

\* [part.strip().upper()] if part else []
OptionalPart(part) ==
    IF Truthy(part) THEN <<str_upper(str_strip(part, Whitespace))>> ELSE <<>>

receipt_canonical(seller_nip, receipt_date, gross_amount, receipt_number, cash_register_number, pads_year) ==
    joined(<<NIPValidator_normalize(seller_nip),
             DateNormalizer_normalize(receipt_date, pads_year)>>,
           AmountNormalizer_normalize(gross_amount),
           OptionalPart(receipt_number) \o OptionalPart(cash_register_number))

contract_canonical(party1_nip, party2_nip, contract_date, contract_number, contract_type, pads_year) ==
    str_join("|", sorted(NIPValidator_normalize(party1_nip), NIPValidator_normalize(party2_nip))
                  \o <<DateNormalizer_normalize(contract_date, pads_year)>>
                  \o OptionalPart(contract_number)
                  \o OptionalPart(contract_type))

generic_canonical(content_hash, document_date, issuer_nip, pads_year) ==
    str_join("|", <<SubSeq(content_hash, 1, IF Len(content_hash) < 64 THEN Len(content_hash) ELSE 64)>>
                  \o (IF Truthy(document_date)
                      THEN <<DateNormalizer_normalize(document_date, pads_year)>> ELSE <<>>)
                  \o (IF Truthy(issuer_nip) THEN <<NIPValidator_normalize(issuer_nip)>> ELSE <<>>))

\* generate_<kind>_id: the identifier of the recipe's canonical string.
generate(prefix_, document_type, canonical_string) ==
    IF canonical_string = InvalidOperation THEN InvalidOperation
    ELSE generate_id(prefix_, document_type, canonical_string)

generate_invoice_id(prefix_, seller_nip, invoice_number, issue_date, gross_amount, pads_year) ==
    generate(prefix_, "INVOICE",
             invoice_canonical(seller_nip, invoice_number, issue_date, gross_amount,
                               pads_year))

generate_receipt_id(prefix_, seller_nip, receipt_date, gross_amount, receipt_number, cash_register_number, pads_year) ==
    generate(prefix_, "RECEIPT",
             receipt_canonical(seller_nip, receipt_date, gross_amount,
                               receipt_number, cash_register_number, pads_year))

generate_contract_id(prefix_, party1_nip, party2_nip, contract_date, contract_number, contract_type, pads_year) ==
    generate(prefix_, "CONTRACT",
             contract_canonical(party1_nip, party2_nip, contract_date,
                                contract_number, contract_type, pads_year))

generate_generic_id(prefix_, document_type, content_hash, document_date, issuer_nip, pads_year) ==
    generate(prefix_, document_type,
             generic_canonical(content_hash, document_date, issuer_nip, pads_year))

verify_id(document_id, canonical_string) ==
    LET expected_hash == str_upper(SubSeq(sha256_hex(encode_utf8(canonical_string)), 1, 16))
        parts == str_split(document_id, "-")
    IN  IF Len(parts) # 3 THEN FALSE ELSE parts[3] = expected_hash

\* The first member of the enumeration with this code, None when there is none.
RECURSIVE type_of_code(_, _)
type_of_code(type_code, i) ==
    IF i > Len(DocumentTypeOrder) THEN None
    ELSE IF DocumentType[DocumentTypeOrder[i]] = type_code THEN DocumentTypeOrder[i]
    ELSE type_of_code(type_code, i + 1)

parse_id(document_id) ==
    LET parts == str_split(document_id, "-")
    IN  IF Len(parts) # 3
        THEN [raised |-> RaisedValueError, prefix |-> "", type |-> "", hash |-> "",
              document_type |-> None]
        ELSE [raised |-> None, prefix |-> parts[1], type |-> parts[2], hash |-> parts[3],
              document_type |-> type_of_code(parts[2], 1)]

(***************************************************************************)
(* The re module, as far as the patterns of the scanners and extractors    *)
(* need it.  A pattern is a tree: a character class, a concatenation, an   *)
(* alternation, a greedy repetition, a capturing group, or one of the      *)
(* assertions \b, (?<!\d) and (?!\d).  Matching backtracks in the order    *)
(* the re module does: alternatives from the left, repetitions longest     *)
(* first.                                                                  *)
(***************************************************************************)

lower_map ==
    LET inverse(map) ==
            [c \in {map[k] : k \in DOMAIN map} |-> CHOOSE k \in DOMAIN map : map[k] = c]
    IN  inverse(upper_map)

\* s.lower()
RECURSIVE str_lower(_)
str_lower(s) ==
    IF Len(s) <= 1
    THEN LET lower(map) == IF s \in DOMAIN map THEN map[s] ELSE s
         IN  lower(lower_map)
    ELSE str_lower(SubSeq(s, 1, Len(s) \div 2))
         \o str_lower(SubSeq(s, (Len(s) \div 2) + 1, Len(s)))

\* \w of re: letters, digits and the underscore.
WordChars ==
    LET letters(map) == DOMAIN map \cup {map[c] : c \in DOMAIN map}
    IN  letters(upper_map) \cup Digits \cup {"_"}

\* What a class matches under re.IGNORECASE.
IgnoreCase(chars) ==
    LET both_cases(map) ==
            chars \cup {map[c] : c \in chars \cap DOMAIN map}
                  \cup {c \in DOMAIN map : map[c] \in chars}
    IN  both_cases(upper_map)

Chars(chars) == [t |-> "chars", of |-> chars]
Cat(items) == [t |-> "cat", of |-> items]
Alt(items) == [t |-> "alt", of |-> items]
Rep(item, min, max) == [t |-> "rep", of |-> item, min |-> min, max |-> max]
Group(k, item) == [t |-> "group", of |-> item, k |-> k]

\* item?  item*  item+  item{n}
Opt(item) == Rep(item, 0, 1)
Star(item) == Rep(item, 0, -1)
Plus(item) == Rep(item, 1, -1)

\* The text itself, in any letter case under re.IGNORECASE.
Text(str, ignore_case) == [t |-> "text", of |-> str, ignore_case |-> ignore_case]

\* How many characters of the class follow pos, at most max of them (-1: any number).
greedy_run(chars, s, pos, max) ==
    LET limit == IF max < 0 \/ max > (Len(s) - pos) + 1 THEN (Len(s) - pos) + 1 ELSE max
    IN  CHOOSE k \in 0..limit :
            /\ \A j \in 0..(k - 1) : CharAt(s, pos + j) \in chars
            /\ k = limit \/ CharAt(s, pos + k) \notin chars

\* A failed match; a match gives the position after it and its groups' texts.
Unmatched == [end |-> 0, groups |-> <<"", "", "">>]

\* pattern.match(s, pos) for the concatenation of items, 1-based.
RECURSIVE re_match(_, _, _, _)
re_match(items, s, pos, groups) ==
    IF items = <<>> THEN [end |-> pos, groups |-> groups]
    ELSE LET item == Head(items)
             rest == Tail(items)
         IN  CASE item.t = "chars" ->
                    IF pos <= Len(s) /\ CharAt(s, pos) \in item.of
                    THEN re_match(rest, s, pos + 1, groups)
                    ELSE Unmatched
               [] item.t = "cat" -> re_match(item.of \o rest, s, pos, groups)
               [] item.t = "alt" ->
                    IF item.of = <<>> THEN Unmatched
                    ELSE LET first == re_match(<<Head(item.of)>> \o rest, s, pos, groups)
                         IN  IF first.end > 0 THEN first
                             ELSE re_match(<<Alt(Tail(item.of))>> \o rest, s, pos, groups)
               [] item.t = "text" ->
                    IF (pos + Len(item.of)) - 1 <= Len(s)
                       /\ Cardinality({IF item.ignore_case THEN str_lower(text) ELSE text :
                                        text \in {SubSeq(s, pos, (pos + Len(item.of)) - 1),
                                                  item.of}}) = 1
                    THEN re_match(rest, s, pos + Len(item.of), groups)
                    ELSE Unmatched
               [] item.t = "rep" /\ item.of.t = "chars" ->
                    \* the longest run of the class that lets the rest match
                    LET longest == greedy_run(item.of.of, s, pos, item.max)
                        tries   == [k \in item.min..longest |->
                                        re_match(rest, s, pos + k, groups)]
                        ok      == {k \in item.min..longest : tries[k].end > 0}
                    IN  IF ok = {} THEN Unmatched
                        ELSE tries[CHOOSE k \in ok : \A j \in ok : j <= k]
               [] item.t = "rep" /\ item.of.t # "chars" ->
                    LET more == IF item.max = 0 THEN Unmatched
                                ELSE re_match(<<item.of, Rep(item.of, item.min - 1,
                                                             item.max - 1)>> \o rest,
                                              s, pos, groups)
                    IN  IF more.end > 0 THEN more
                        ELSE IF item.min <= 0 THEN re_match(rest, s, pos, groups)
                        ELSE Unmatched
               [] item.t = "group" ->
                    re_match(<<item.of, [t |-> "end", k |-> item.k, start |-> pos]>>
                             \o rest, s, pos, groups)
               [] item.t = "end" ->
                    re_match(rest, s, pos,
                             [groups EXCEPT ![item.k] = SubSeq(s, item.start, pos - 1)])
               [] item.t = "\\b" ->
                    \* a word character on exactly one side of pos
                    IF Cardinality({p \in {pos - 1, pos} :
                                       p >= 1 /\ p <= Len(s) /\ CharAt(s, p) \in WordChars}) = 1
                    THEN re_match(rest, s, pos, groups)
                    ELSE Unmatched
               [] item.t = "(?<!\\d)" ->
                    IF pos > 1 /\ CharAt(s, pos - 1) \in Digits THEN Unmatched
                    ELSE re_match(rest, s, pos, groups)
               [] item.t = "(?!\\d)" ->
                    IF pos <= Len(s) /\ CharAt(s, pos) \in Digits THEN Unmatched
                    ELSE re_match(rest, s, pos, groups)

\* pattern.match(s, pos) at every position of s.
re_match_at(pattern, s) ==
    [pos \in 1..(Len(s) + 1) |-> re_match(<<pattern>>, s, pos, Unmatched.groups)]

\* The matches of re.finditer from pos on: leftmost first, not overlapping.
RECURSIVE re_finditer(_, _)
re_finditer(matches, pos) ==
    LET starts == {i \in DOMAIN matches : i >= pos /\ matches[i].end > 0}
        start  == CHOOSE i \in starts : \A j \in starts : i <= j
    IN  IF starts = {} THEN <<>>
        ELSE <<[start |-> start, end |-> matches[start].end,
                groups |-> matches[start].groups]>>
             \o re_finditer(matches, IF matches[start].end > start
                                     THEN matches[start].end ELSE start + 1)

\* re.search(pattern, s): the leftmost match, Unmatched when there is none.
leftmost(matches, starts) ==
    IF starts = {} THEN Unmatched
    ELSE matches[CHOOSE i \in starts : \A j \in starts : i <= j]

first_match(matches) == leftmost(matches, {i \in DOMAIN matches : matches[i].end > 0})

re_search(pattern, s) == first_match(re_match_at(pattern, s))

\* re.findall(pattern, s) for a pattern with one group: the group's texts.
group_texts(found) == [i \in DOMAIN found |-> found[i].groups[1]]

re_findall(pattern, s) == group_texts(re_finditer(re_match_at(pattern, s), 1))

(***************************************************************************)
(* BaseOCRProcessor.extract_structured_data: the scanners that every page  *)
(* text and every text file goes through.  The no-break space that some    *)
(* patterns name is not a character of the model's texts.                  *)
(***************************************************************************)

\* for match in matches: if match not in results: results.append(match)
RECURSIVE append_new(_, _)
append_new(results, matches) ==
    IF matches = <<>> THEN results
    ELSE append_new(IF \E i \in DOMAIN results : results[i] = Head(matches)
                    THEN results ELSE Append(results, Head(matches)),
                    Tail(matches))

\* re.findall of each pattern in turn, one list.
RECURSIVE re_findall_each(_, _)
re_findall_each(patterns, text) ==
    IF patterns = <<>> THEN <<>>
    ELSE re_findall(Head(patterns), text) \o re_findall_each(Tail(patterns), text)

Digit == Chars(Digits)
DigitsN(n) == Rep(Digit, n, n)
\* [:\s]*
ColonsAndSpaces == Star(Chars({":"} \cup Whitespace))
\* [\s\/\-]?
OptSeparator == Opt(Chars(Whitespace \cup {"/", "-"}))
\* [-\.\/]  [.\-/]  [/\-\.]
DateSeparator == Chars({"-", ".", "/"})
WordBoundary == [t |-> "\\b"]

nip_patterns ==
    LET sep == Opt(Chars({"-"} \cup Whitespace))
        nip == Cat(<<Text("NIP", TRUE), ColonsAndSpaces>>)
    IN  << Cat(<<nip, Group(1, Cat(<<DigitsN(3), sep, DigitsN(3), sep,
                                     DigitsN(2), sep, DigitsN(2)>>))>>),
           Cat(<<nip, Group(1, DigitsN(10))>>),
           Group(1, Cat(<<DigitsN(3), Chars({"-"}), DigitsN(3), Chars({"-"}),
                          DigitsN(2), Chars({"-"}), DigitsN(2)>>)),
           Cat(<<[t |-> "(?<!\\d)"], Group(1, DigitsN(10)), [t |-> "(?!\\d)"]>>) >>

\* The checksum test of _find_nips on ten digits.
nip_checksum_ok(nip) ==
    LET weights == <<6, 5, 7, 2, 3, 4, 5, 6, 7>>
        RECURSIVE checksum(_)
        checksum(i) == IF i = 0 THEN 0
                       ELSE (digit_value[CharAt(nip, i)] * weights[i]) + checksum(i - 1)
    IN  checksum(9) % 11 = digit_value[CharAt(nip, 10)]

\* len(nip) == 10 and nip.isdigit() and the checksum
valid_nip(nip) ==
    /\ Len(nip) = 10
    /\ \A i \in 1..10 : CharAt(nip, i) \in Digits
    /\ nip_checksum_ok(nip)

\* re.sub(r'[\s\-]', '', match) of each match
nip_texts(matches) ==
    [i \in DOMAIN matches |-> re_sub_delete(matches[i], Whitespace \cup {"-"})]

_find_nips(text) ==
    append_new(<<>>, SelectSeq(nip_texts(re_findall_each(nip_patterns, text)), valid_nip))

amount_patterns ==
    LET amount == Cat(<<Rep(Digit, 1, 3), Star(Cat(<<Opt(Chars(Whitespace)), DigitsN(3)>>)),
                        Chars({",", "."}), DigitsN(2)>>)
    IN  << Cat(<<Group(1, amount), Star(Chars(Whitespace)),
                 Opt(Alt(<<Text("z}", TRUE), Text("PLN", TRUE), Text("z}otych", TRUE)>>))>>),
           Cat(<<Alt(<<Text("brutto", TRUE), Text("netto", TRUE), Text("razem", TRUE),
                       Text("suma", TRUE), Text("do zap}aty", TRUE)>>),
                 ColonsAndSpaces, Group(1, amount)>>),
           Cat(<<Group(1, Cat(<<Plus(Digit), Chars({",", "."}), DigitsN(2)>>)),
                 Star(Chars(Whitespace)),
                 Alt(<<Text("z}", TRUE), Text("PLN", TRUE)>>)>>) >>

\* match.replace(' ', '').replace(',', '.') of each match
amount_texts(matches) ==
    [i \in DOMAIN matches |-> str_replace(str_replace(matches[i], " ", ""), ",", ".")]

_find_amounts(text) ==
    append_new(<<>>, amount_texts(re_findall_each(amount_patterns, text)))

date_patterns ==
    << Cat(<<WordBoundary, Group(1, Cat(<<DigitsN(2), DateSeparator, DigitsN(2),
                                          DateSeparator, DigitsN(4)>>)), WordBoundary>>),
       Cat(<<WordBoundary, Group(1, Cat(<<DigitsN(4), DateSeparator, DigitsN(2),
                                          DateSeparator, DigitsN(2)>>)), WordBoundary>>),
       Cat(<<WordBoundary, Group(1, Cat(<<DigitsN(2), DateSeparator, DigitsN(2),
                                          DateSeparator, DigitsN(2)>>)), WordBoundary>>) >>

_find_dates(text) == append_new(<<>>, re_findall_each(date_patterns, text))

\* [A-Z0-9\/\-] under re.IGNORECASE
NumberChar == Chars(IgnoreCase(UpperLetters) \cup Digits \cup {"/", "-"})

invoice_number_patterns ==
    << Cat(<<Alt(<<Text("faktura", TRUE), Text("fv", TRUE), Text("rachunek", TRUE),
                   Text("nr", TRUE)>>),
             ColonsAndSpaces,
             Group(1, Cat(<<Plus(NumberChar), Plus(Digit), Star(NumberChar)>>))>>),
       Cat(<<Alt(<<Text("numer", TRUE), Text("nr", TRUE)>>), ColonsAndSpaces,
             Group(1, Cat(<<Rep(Chars(IgnoreCase(UpperLetters)), 1, 3), OptSeparator,
                            Rep(Digit, 1, 4), OptSeparator, Rep(Digit, 2, 4),
                            OptSeparator, Rep(Digit, 2, 6)>>))>>),
       Group(1, Cat(<<Text("FV", TRUE), OptSeparator, Plus(Digit), OptSeparator,
                      Star(Digit), OptSeparator, Star(Digit)>>)),
       Group(1, Cat(<<Text("F", TRUE), OptSeparator, Plus(Digit), OptSeparator,
                      DigitsN(4)>>)) >>

\* match.strip().upper() of each match
number_texts(matches) ==
    [i \in DOMAIN matches |-> str_upper(str_strip(matches[i], Whitespace))]

\* len(number) >= 4
long_number(number) == Len(number) >= 4

_find_invoice_numbers(text) ==
    append_new(<<>>, SelectSeq(number_texts(re_findall_each(invoice_number_patterns, text)),
                               long_number))

extract_structured_data(text) ==
    [nips |-> _find_nips(text), amounts |-> _find_amounts(text),
     dates |-> _find_dates(text), invoice_numbers |-> _find_invoice_numbers(text)]

(***************************************************************************)
(* The extractors (extractors/base.py).  An OCR result is its full_text    *)
(* and the four detected lists; an ExtractionResult keeps the fields the   *)
(* pipeline reads when it builds the identifier, and contract_type, which  *)
(* it does not read.  net_amount and vat_amount are extracted by the code  *)
(* and read by nothing that follows; they are left out.                    *)
(***************************************************************************)

\* kw in text
contains(text, kw) ==
    \E i \in 1..((Len(text) - Len(kw)) + 1) : SubSeq(text, i, (i + Len(kw)) - 1) = kw

\* sum(1 for kw in KEYWORDS if kw in text_lower)
keyword_count(keywords, text_lower) ==
    Cardinality({i \in DOMAIN keywords : contains(text_lower, keywords[i])})

\* A confidence is a float.  The sums of can_extract are multiples of 0.05 up
\* to the rounding of binary floating point: a float is the number of its
\* hundredths and on which side of the float nearest to hundredths/100 it lies
\* (-1 below, 0 equal, 1 above), which is what the comparisons depend on.
Float(hundredths, side) == [hundredths |-> hundredths, side |-> side]

\* a > b
float_gt(a, b) ==
    a.hundredths > b.hundredths \/ (a.hundredths = b.hundredths /\ a.side > b.side)

\* min(1.0, sum), the sum computed in IEEE 754 double precision left to right;
\* sides lists the sums that are not the float nearest to their decimal value.
confidence_sum(hundredths, sides, key) ==
    IF hundredths >= 100 THEN Float(100, 0)
    ELSE Float(hundredths, IF key \in DOMAIN sides THEN sides[key] ELSE 0)

\* for pattern in patterns: match = re.search(pattern, text); if match: ... match.group(1)
RECURSIVE search_first(_, _)
search_first(patterns, text) ==
    IF patterns = <<>> THEN None
    ELSE LET first(match) ==
                 IF match.end > 0 THEN match.groups[1]
                 ELSE search_first(Tail(patterns), text)
         IN  first(re_search(Head(patterns), text))

\* 2 ** e % 1000
RECURSIVE pow2_mod(_)
pow2_mod(e) ==
    IF e = 0 THEN 1
    ELSE LET half == pow2_mod(e \div 2)
         IN  (half * half * (IF e % 2 = 1 THEN 2 ELSE 1)) % 1000

\* Whether float(text), for text = thousandths/1000 with thousandths ending
\* in 5, is formatted upwards by '.2f'.  The double nearest to the value has
\* 53 significant bits; it lies above the value when the bits cut off exceed
\* one half, below it when they are less, and is the value itself when the
\* value is a multiple of 1/8, which '.2f' rounds to the even hundredth.
\* Covers thousandths < 2^31.
\* floor(log2(n / 1000))
log2_of_thousandths(n) ==
    IF n >= 1000
    THEN CHOOSE k \in 0..21 : (2^k) * 1000 <= n /\ n \div 2 < (2^k) * 1000
    ELSE 0 - (CHOOSE j \in 1..8 : n * (2^j) >= 1000 /\ n * (2^(j - 1)) < 1000)

tie_rounds_up(n, cut_off) == IF cut_off = 0 THEN (n \div 10) % 2 = 1 ELSE cut_off > 500

tie_of_thousandths(n, log2) == tie_rounds_up(n, ((n % 1000) * pow2_mod(52 - log2)) % 1000)

tie_of(n) == tie_of_thousandths(n, log2_of_thousandths(n))

float_tie_rounds_up(thousandths) == tie_of(int_of(thousandths))

\* f"{float(cleaned):.2f}" for cleaned of digits and dots; "" when float()
\* raises ValueError.  For amounts of at most 15 significant digits: a longer
\* one is not the double nearest to it in its leading digits already.
\* Whether the digits after the hundredths round the hundredths up.
rounds_up(kept, rest) ==
    CASE rest = "" -> FALSE
      [] rest = "5" -> float_tie_rounds_up(kept \o "5")
      [] OTHER -> digit_value[CharAt(rest, 1)] >= 5

with_point(digits) ==
    SubSeq(digits, 1, Len(digits) - 2) \o "." \o SubSeq(digits, Len(digits) - 1, Len(digits))

rounded_2f(kept, up) == with_point(IF up THEN Increment(kept) ELSE kept)

round_2f(kept, rest) == rounded_2f(kept, rounds_up(kept, rest))

format_2f(int, frac) ==
    round_2f(int \o SubSeq(frac \o "00", 1, 2),
             str_rstrip(SubSeq(frac \o "00", 3, Len(frac) + 2), {"0"}))

float_of(cleaned, whole, fraction) ==
    IF cleaned \in {"", "."} \/ contains(whole, ".") THEN ""
    ELSE format_2f(StripLeadingZeros(whole), fraction)

float_at(cleaned, dot) ==
    float_of(cleaned,
             IF dot = 0 THEN cleaned ELSE SubSeq(cleaned, 1, dot - 1),
             IF dot = 0 THEN "" ELSE SubSeq(cleaned, dot + 1, Len(cleaned)))

float_2f(cleaned) == float_at(cleaned, str_rfind_dot(cleaned))

\* BaseExtractor._normalize_amount
\* parts = cleaned.rsplit('.', 1); if len(parts) == 2 and len(parts[1]) == 2: ...
without_thousands(cleaned, dot) ==
    IF dot > 0 /\ Len(cleaned) - dot = 2
    THEN re_sub_delete(SubSeq(cleaned, 1, dot - 1), {"."}) \o SubSeq(cleaned, dot, Len(cleaned))
    ELSE cleaned

float_of_cleaned(cleaned) == float_2f(without_thousands(cleaned, str_rfind_dot(cleaned)))

_normalize_amount(amount) ==
    IF amount = "" THEN ""
    ELSE float_of_cleaned(str_replace(re_sub_delete(amount,
                                                    DOMAIN ord \ (Digits \cup {",", "."})),
                                      ",", "."))

\* f"{max(amounts):.2f}" for amounts = [float(self._normalize_amount(a) or 0) ...]:
\* of texts that '.2f' wrote, the longest, and of those the last in str order.
amount_lt(a, b) == Len(a) < Len(b) \/ (Len(a) = Len(b) /\ str_lt(a, b))

greatest(amounts) == CHOOSE a \in amounts : \A b \in amounts : ~amount_lt(a, b)

\* float(x or 0), as '.2f' writes it
or_zero(amount) == IF amount = "" THEN "0.00" ELSE amount

max_amount(detected) ==
    greatest({or_zero(_normalize_amount(detected[i])) : i \in DOMAIN detected})

\* BaseExtractor._normalize_date.  re.sub(pattern, replacement, match.group())
\* rewrites the whole of the matched text, which matches as it did in place.
\* \b(\d{first})[-\.\/](\d{2})[-\.\/](\d{last})\b
date_digits(first, last) ==
    Cat(<<WordBoundary, Group(1, DigitsN(first)), DateSeparator, Group(2, DigitsN(2)),
          DateSeparator, Group(3, DigitsN(last)), WordBoundary>>)

\* The three patterns of _normalize_date: year first, year last, short year.
normalize_date_patterns == <<date_digits(4, 2), date_digits(2, 4), date_digits(2, 2)>>

rewritten_date(date_str, year_first, year_last, year_short) ==
    CASE date_str = "" -> ""
      [] year_first[1] # "" ->
            year_first[1] \o "-" \o year_first[2] \o "-" \o year_first[3]
      [] year_last[1] # "" ->
            year_last[3] \o "-" \o year_last[2] \o "-" \o year_last[1]
      [] year_short[1] # "" ->
            "20" \o year_short[3] \o "-" \o year_short[2] \o "-" \o year_short[1]
      [] OTHER -> date_str

date_of_groups(date_str, groups) ==
    rewritten_date(date_str, groups[1], groups[2], groups[3])

_normalize_date(date_str) ==
    date_of_groups(date_str,
                   [i \in 1..3 |-> re_search(normalize_date_patterns[i], date_str).groups])

\* x[0] if x else None
first_or_none(list) == IF list = <<>> THEN None ELSE list[1]

\* keyword[:\s]*(\d[\d\s,\.]*\d) under re.IGNORECASE
amount_after(keyword) ==
    Cat(<<keyword, ColonsAndSpaces,
          Group(1, Cat(<<Digit, Star(Chars(Digits \cup Whitespace \cup {",", "."})), Digit>>))>>)

\* (\d{2,4}[.\-/]\d{2}[.\-/]\d{2,4}) and (\d{2}[.\-/]\d{2}[.\-/]\d{4})
date_group(first_min, first_max, last_min, last_max) ==
    Group(1, Cat(<<Rep(Digit, first_min, first_max), DateSeparator, DigitsN(2),
                   DateSeparator, Rep(Digit, last_min, last_max)>>))

ExtractionResult(category, document_date, issuer_nip) ==
    [category |-> category, document_date |-> document_date, issuer_nip |-> issuer_nip,
     buyer_nip |-> None, party2_nip |-> None, invoice_number |-> None,
     gross_amount |-> None, receipt_number |-> None, cash_register_number |-> None,
     contract_number |-> None, contract_type |-> None]

INVOICE_KEYWORDS ==
    <<"faktura", "fv", "rachunek", "invoice", "sprzedawca", "nabywca", "nip", "vat",
      "brutto", "netto", "podatek">>

\* InvoiceExtractor.can_extract: the confidence
InvoiceExtractor_can_extract(ocr_result) ==
    LET count(list) == IF Len(list) >= 1 THEN 1 ELSE 0
        confidence(keywords, found) ==
            confidence_sum((keywords * 15) + (found * 20),
                           (<<0, 3>> :> 1) @@ (<<2, 3>> :> -1) @@ (<<3, 0>> :> -1)
                           @@ (<<3, 1>> :> -1) @@ (<<3, 2>> :> -1) @@ (<<6, 0>> :> -1),
                           <<keywords, found>>)
    IN  confidence(keyword_count(INVOICE_KEYWORDS, str_lower(ocr_result.full_text)),
                   count(ocr_result.detected_nips) + count(ocr_result.detected_amounts)
                   + count(ocr_result.detected_invoice_numbers))

_find_invoice_number(text, detected) ==
    LET number == Group(1, Cat(<<Star(NumberChar), Plus(Digit), Star(NumberChar)>>))
        spaces == Star(Chars(Whitespace))
        colons == Plus(Chars({":"} \cup Whitespace))
        patterns(number_) ==
            << Cat(<<WordBoundary,
                     Alt(<<Text("faktura", TRUE), Text("fv", TRUE), Text("rachunek", TRUE),
                           Text("dokumentu", TRUE)>>),
                     WordBoundary, spaces, Opt(Text("vat", TRUE)), spaces,
                     Opt(Alt(<<Text("nr", TRUE), Text("numer", TRUE)>>)), colons, number_>>),
               Cat(<<WordBoundary, Alt(<<Text("nr", TRUE), Text("numer", TRUE)>>),
                     WordBoundary, spaces,
                     Opt(Alt(<<Text("faktury", TRUE), Text("fv", TRUE),
                               Text("dokumentu", TRUE)>>)),
                     colons, number_>>) >>
        number_of(found) ==
            IF found # None THEN str_upper(str_strip(found, Whitespace))
            ELSE first_or_none(detected)
    IN  number_of(search_first(patterns(number), text))

\* return self._normalize_date(date) of the date found, if any
normalized_date(date) == IF date = None THEN None ELSE _normalize_date(date)

\* the date found by a pattern, else the first detected one
found_or_detected(found, detected) ==
    normalized_date(IF found # None THEN found ELSE first_or_none(detected))

_find_issue_date(text, detected) ==
    LET spaces == Star(Chars(Whitespace))
        patterns(date, colons) ==
            << Cat(<<Text("data", TRUE), spaces, Text("wystawienia", TRUE), colons, date>>),
               Cat(<<Text("wystawion", TRUE), Chars(IgnoreCase({"a", "o"})), spaces,
                     Opt(Text("dnia", TRUE)), colons, date>>),
               Cat(<<Text("data", TRUE), colons, date>>) >>
    IN  found_or_detected(search_first(patterns(date_group(2, 4, 2, 4), ColonsAndSpaces),
                                       text),
                          detected)

\* InvoiceExtractor._find_amounts: the gross amount
\* result['gross'] of the text after "brutto", if any
gross_of(brutto_match) ==
    IF brutto_match # None THEN _normalize_amount(brutto_match) ELSE None

\* if not result['gross'] and detected: the greatest detected amount
or_greatest(gross, detected) ==
    IF ~Truthy(gross) /\ detected # <<>> THEN max_amount(detected) ELSE gross

InvoiceExtractor_find_amounts(text, detected) ==
    or_greatest(gross_of(search_first(<<amount_after(Text("brutto", TRUE))>>, text)),
                detected)

InvoiceExtractor_extract(ocr_result) ==
    [ExtractionResult("INVOICE",
                      _find_issue_date(ocr_result.full_text, ocr_result.detected_dates),
                      first_or_none(ocr_result.detected_nips))
     EXCEPT !.buyer_nip = IF Len(ocr_result.detected_nips) > 1
                          THEN ocr_result.detected_nips[2] ELSE None,
            !.invoice_number = _find_invoice_number(ocr_result.full_text,
                                                    ocr_result.detected_invoice_numbers),
            !.gross_amount = InvoiceExtractor_find_amounts(ocr_result.full_text,
                                                           ocr_result.detected_amounts)]

RECEIPT_KEYWORDS ==
    <<"paragon", "fiskalny", "kasa", "sprzeda~", "got@wka", "karta", "reszta", "ptu", "suma">>

receipt_confidence(keywords, has_fiscal_markers, has_ptu) ==
    confidence_sum((keywords * 15) + (has_fiscal_markers * 30) + (has_ptu * 20),
                   (<<1, 1, 0>> :> -1) @@ (<<1, 1, 1>> :> -1) @@ (<<3, 0, 0>> :> -1)
                   @@ (<<3, 0, 1>> :> -1) @@ (<<4, 1, 0>> :> -1)
                   @@ (<<6, 0, 0>> :> -1),
                   <<keywords, has_fiscal_markers, has_ptu>>)

receipt_confidence_of(text_lower) ==
    receipt_confidence(keyword_count(RECEIPT_KEYWORDS, text_lower),
                       IF \E marker \in {"fiskaln", "paragon"} : contains(text_lower, marker)
                       THEN 1 ELSE 0,
                       IF contains(text_lower, "ptu")
                          \/ re_search(Cat(<<Plus(Digit), Chars({"%"})>>), text_lower).end > 0
                       THEN 1 ELSE 0)

\* ReceiptExtractor.can_extract: the confidence
ReceiptExtractor_can_extract(ocr_result) ==
    receipt_confidence_of(str_lower(ocr_result.full_text))

total_amount_patterns ==
    [i \in 1..3 |-> amount_after(Text(<<"suma", "razem", "do zap}aty">>[i], TRUE))]

\* the amount a pattern found, else the greatest detected one
total_of(found, detected) ==
    CASE found # None -> _normalize_amount(found)
      [] detected # <<>> -> max_amount(detected)
      [] OTHER -> None

_find_total_amount(text, detected) ==
    total_of(search_first(total_amount_patterns, text), detected)

\* ReceiptExtractor._find_receipt_identifiers: <<receipt_num, cash_register>>
receipt_identifier_patterns(digits, colons) ==
    << Cat(<<Alt(<<Text("nr", TRUE), Text("numer", TRUE)>>),
             Star(Chars(Whitespace)), Opt(Text("paragonu", TRUE)), colons, digits>>),
       Cat(<<Alt(<<Text("kasa", TRUE), Text("stanowisko", TRUE)>>), colons, digits>>) >>

search_each(patterns, text) == [i \in 1..2 |-> search_first(<<patterns[i]>>, text)]

_find_receipt_identifiers(text) ==
    search_each(receipt_identifier_patterns(Group(1, Plus(Digit)), ColonsAndSpaces), text)

receipt_result(ocr_result, identifiers) ==
    [ExtractionResult("RECEIPT",
                      IF Truthy(first_or_none(ocr_result.detected_dates))
                      THEN _normalize_date(ocr_result.detected_dates[1]) ELSE None,
                      first_or_none(ocr_result.detected_nips))
     EXCEPT !.gross_amount = _find_total_amount(ocr_result.full_text,
                                                ocr_result.detected_amounts),
            !.receipt_number = identifiers[1],
            !.cash_register_number = identifiers[2]]

ReceiptExtractor_extract(ocr_result) ==
    receipt_result(ocr_result, _find_receipt_identifiers(ocr_result.full_text))

CONTRACT_KEYWORDS ==
    <<"umowa", "kontrakt", "porozumienie", "zlecenie", "strona", "wykonawca",
      "zamawiaj[cy", "zleceniodawca", "przedmiot", "wynagrodzenie", "termin">>

\* ContractExtractor.can_extract: the confidence
ContractExtractor_can_extract(ocr_result) ==
    LET confidence(keywords, has_contract_header, has_parties) ==
            confidence_sum((keywords * 10) + (has_contract_header * 30) + (has_parties * 20),
                           (<<1, 0, 1>> :> 1) @@ (<<1, 1, 1>> :> 1) @@ (<<3, 0, 0>> :> 1)
                           @@ (<<3, 1, 0>> :> 1) @@ (<<4, 0, 1>> :> 1) @@ (<<4, 1, 1>> :> -1)
                           @@ (<<6, 0, 0>> :> 1) @@ (<<6, 1, 0>> :> 1) @@ (<<7, 0, 0>> :> 1)
                           @@ (<<7, 0, 1>> :> 1),
                           <<keywords, has_contract_header, has_parties>>)
        has(text_lower, words) ==
            IF \E word \in words : contains(text_lower, word) THEN 1 ELSE 0
        of_text(text_lower) ==
            confidence(keyword_count(CONTRACT_KEYWORDS, text_lower),
                       has(text_lower, {"umowa", "kontrakt"}),
                       has(text_lower, {"strona", "wykonawca"}))
    IN  of_text(str_lower(ocr_result.full_text))

_find_contract_date(text, detected) ==
    LET spaces == Star(Chars(Whitespace))
        patterns(date, colons) ==
            << Cat(<<Text("zawarta", TRUE), spaces,
                     Opt(Cat(<<Text("w", TRUE), spaces, Text("dniu", TRUE)>>)),
                     colons, date>>),
               Cat(<<Text("dnia", TRUE), colons, date>>),
               Cat(<<Text("data", TRUE), colons, date>>) >>
    IN  found_or_detected(search_first(patterns(date_group(2, 2, 4, 4), ColonsAndSpaces),
                                       text),
                          detected)

_find_contract_number(text) ==
    LET spaces == Star(Chars(Whitespace))
        patterns(number, colons) ==
            << Cat(<<Text("umowa", TRUE), spaces,
                     Opt(Alt(<<Text("nr", TRUE), Text("numer", TRUE)>>)), colons, number>>),
               Cat(<<Alt(<<Text("nr", TRUE), Text("numer", TRUE)>>), spaces,
                     Opt(Text("umowy", TRUE)), colons, number>>) >>
        number_of(found) ==
            IF found # None THEN str_upper(str_strip(found, Whitespace)) ELSE None
    IN  number_of(search_first(patterns(Group(1, Plus(NumberChar)), ColonsAndSpaces), text))

\* The keywords of _find_contract_type in the order of its dict, and the type
\* each stands for.
contract_types ==
    << <<"zlecenie", "ZLECENIE">>, <<"o dzie}o", "DZIELO">>, <<"najmu", "NAJEM">>,
       <<"sprzeda~y", "SPRZEDAZ">>, <<"wsp@}pracy", "WSPOLPRACA">>,
       <<"o prac$", "PRACA">> >>

RECURSIVE first_type_in(_, _)
first_type_in(text_lower, types) ==
    IF types = <<>> THEN None
    ELSE IF contains(text_lower, Head(types)[1]) THEN Head(types)[2]
    ELSE first_type_in(text_lower, Tail(types))

_find_contract_type(text) == first_type_in(str_lower(text), contract_types)

ContractExtractor_extract(ocr_result) ==
    [ExtractionResult("CONTRACT",
                      _find_contract_date(ocr_result.full_text, ocr_result.detected_dates),
                      first_or_none(ocr_result.detected_nips))
     EXCEPT !.party2_nip = IF Len(ocr_result.detected_nips) > 1
                           THEN ocr_result.detected_nips[2] ELSE None,
            !.contract_number = _find_contract_number(ocr_result.full_text),
            !.contract_type = _find_contract_type(ocr_result.full_text)]

\* DocumentExtractor.extract: the extractor of the greatest confidence above
\* 0.4, the earlier one of equals; UNKNOWN when there is none.
\* best_confidence after the extractor of confidence next has had its turn:
\* if confidence > 0.4 and confidence > best_confidence
\* if confidence > best_confidence: the turn of a loop that does not ask can_extract
best_of_any(best_confidence, next) ==
    IF float_gt(next, best_confidence) THEN next ELSE best_confidence

\* if can_extract and confidence > best_confidence: best_confidence = confidence

best_of(best_confidence, next) ==
    IF float_gt(next, Float(40, 0)) /\ float_gt(next, best_confidence)
    THEN next ELSE best_confidence

\* best_extractor.extract(ocr_result), given best_confidence after each turn
extract_with_best(ocr_result, after_invoice, after_receipt, after_contract) ==
    CASE after_contract # after_receipt -> ContractExtractor_extract(ocr_result)
      [] after_receipt # after_invoice -> ReceiptExtractor_extract(ocr_result)
      [] after_invoice # Float(0, 0) -> InvoiceExtractor_extract(ocr_result)
      [] OTHER -> ExtractionResult("UNKNOWN",
                                   first_or_none(ocr_result.detected_dates),
                                   first_or_none(ocr_result.detected_nips))

extract_by_confidence(ocr_result, invoice, receipt, contract) ==
    extract_with_best(ocr_result,
                      best_of(Float(0, 0), invoice),
                      best_of(best_of(Float(0, 0), invoice), receipt),
                      best_of(best_of(best_of(Float(0, 0), invoice), receipt), contract))

DocumentExtractor_extract(ocr_result) ==
    extract_by_confidence(ocr_result,
                          InvoiceExtractor_can_extract(ocr_result),
                          ReceiptExtractor_can_extract(ocr_result),
                          ContractExtractor_can_extract(ocr_result))
(***************************************************************************)
(* DocumentPipeline (pipeline.py).  A file is its path and the text the    *)
(* OCR engine reads on each of its pages; for a text file, its content.    *)
(***************************************************************************)

\* x or default
Or(x, default) == IF Truthy(x) THEN x ELSE default

\* Path(file_path).suffix.lower()
path_suffix(file_path) ==
    LET from(dot) == IF dot = 0 THEN "" ELSE str_lower(SubSeq(file_path, dot, Len(file_path)))
    IN  from(str_rfind_dot(file_path))

\* The DocumentOCRResult of a page, and the one process builds for a text
\* file: the text and what the scanners find in it.
DocumentOCRResult(full_text) ==
    LET result_of(structured) ==
            [full_text |-> full_text,
             detected_nips |-> structured.nips,
             detected_amounts |-> structured.amounts,
             detected_dates |-> structured.dates,
             detected_invoice_numbers |-> structured.invoice_numbers]
    IN  result_of(extract_structured_data(full_text))

\* list(set(tokens)).  A set of strings is iterated in the order of its hash
\* table, which the string hash seed of the process decides; the model has two
\* seeds, under which that order is the ascending and the descending one.
RECURSIVE list_of_set(_, _)
list_of_set(tokens, seed) ==
    IF tokens = {} THEN <<>>
    ELSE LET before(pair) == str_lt(pair[1], pair[2])
             rest(first) == <<first>> \o list_of_set(tokens \ {first}, seed)
         IN  rest(CHOOSE a \in tokens :
                    \A b \in tokens : ~before(IF seed = 0 THEN <<b, a>> ELSE <<a, b>>))

\* The DocumentOCRResult that process builds of the pages of a PDF.
merge_pages(ocr_result, seed) ==
    LET merged(detected) ==
            list_of_set(UNION {{ocr_result[i][detected][j] : j \in DOMAIN ocr_result[i][detected]}
                               : i \in DOMAIN ocr_result}, seed)
        lists == [detected \in {"detected_nips", "detected_amounts", "detected_dates",
                                 "detected_invoice_numbers"} |-> merged(detected)]
    IN  [full_text |-> str_join("\n\n", [i \in DOMAIN ocr_result |-> ocr_result[i].full_text])]
        @@ lists

\* The exception of the OCR engine on a file it cannot read, and the OSError of
\* open() on one.
RaisedOCRError == "<OCRError>"
RaisedOSError == "<OSError>"

RECURSIVE sum(_)
sum(numbers) == IF numbers = <<>> THEN 0 ELSE Head(numbers) + sum(Tail(numbers))

\* A mean confidence is the quotient of a sum of hundredths and a count.
Mean(total, count) == [total |-> total, count |-> count]

\* sum(r.average_confidence for r in ocr_result) / len(ocr_result)
mean_confidence(confidences) == Mean(sum(confidences), Len(confidences))

\* Step 1 of process: the OCR result of the file, by its suffix, and its
\* average_confidence; or the exception of a file that cannot be read, the
\* ValueError of a PDF without pages and of a suffix that is not supported.
read(suffix, readable, page_results, page_confidences, seed) ==
    CASE suffix = ".pdf" ->
            IF ~readable THEN [raised |-> RaisedOCRError]
            ELSE IF Len(page_results) = 0 THEN [raised |-> RaisedValueError]
            ELSE [raised |-> None, ocr_result |-> merge_pages(page_results, seed),
                  average_confidence |-> mean_confidence(page_confidences)]
      [] suffix \in {".png", ".jpg", ".jpeg", ".bmp", ".tiff"} ->
            IF ~readable THEN [raised |-> RaisedOCRError]
            ELSE [raised |-> None, ocr_result |-> page_results[1],
                  average_confidence |-> Mean(page_confidences[1], 1)]
      [] suffix \in {".xml", ".html", ".htm", ".txt"} ->
            IF ~readable THEN [raised |-> RaisedOSError]
            ELSE [raised |-> None, ocr_result |-> page_results[1],
                  average_confidence |-> Mean(100, 1)]
      [] OTHER -> [raised |-> RaisedValueError]

\* Step 2: the extraction of what was read.
extract(was_read) ==
    IF was_read.raised # None THEN was_read
    ELSE [raised |-> None, full_text |-> was_read.ocr_result.full_text,
          ocr_result |-> was_read.ocr_result,
          average_confidence |-> was_read.average_confidence,
          extraction |-> DocumentExtractor_extract(was_read.ocr_result)]

\* A file is whether it can be read, the text of each of its pages and the
\* confidence of the OCR engine on each.
read_and_extract(file_path, file, seed) ==
    extract(read(path_suffix(file_path), file.readable,
                 [i \in DOMAIN file.pages |-> DocumentOCRResult(file.pages[i])],
                 file.confidences, seed))

_map_category_to_type(category) ==
    IF category \in {"INVOICE", "RECEIPT", "CONTRACT", "BANK_STATEMENT"} THEN category
    ELSE "OTHER"

\* if part: canonical_parts.append(part)
Optional(part) == IF Truthy(part) THEN <<part>> ELSE <<>>

\* The canonical string the pipeline rebuilds of the normalized nip, date and
\* amount, and the identifier the generator returns for the fields.
generated_for(prefix_, extraction, doc_type, pads_year, issuer_nip, document_date, gross_amount, nip, date, amount, content_hash) ==
    CASE doc_type = "INVOICE" ->
            [canonical_string |->
                str_join("|", <<nip, str_upper(Or(extraction.invoice_number, "")),
                                date, amount>>),
             document_id |->
                generate_invoice_id(prefix_, issuer_nip,
                                    Or(extraction.invoice_number, ""),
                                    document_date, gross_amount, pads_year)]
      [] doc_type = "RECEIPT" ->
            [canonical_string |->
                str_join("|", <<nip, date, amount>>
                              \o Optional(extraction.receipt_number)
                              \o Optional(extraction.cash_register_number)),
             document_id |->
                generate_receipt_id(prefix_, issuer_nip, document_date, gross_amount,
                                    extraction.receipt_number,
                                    extraction.cash_register_number, pads_year)]
      [] doc_type = "CONTRACT" ->
            [canonical_string |->
                str_join("|", sorted(nip, NIPValidator_normalize(
                                            Or(extraction.party2_nip, "")))
                              \o <<date>>
                              \o Optional(str_upper(Or(extraction.contract_number,
                                                       "")))),
             document_id |->
                generate_contract_id(prefix_, issuer_nip,
                                     Or(extraction.party2_nip, ""), document_date,
                                     extraction.contract_number, None, pads_year)]
      [] OTHER ->
            [canonical_string |->
                str_join("|", <<SubSeq(content_hash, 1, 32), date, nip>>),
             document_id |->
                generate_generic_id(prefix_, doc_type, content_hash,
                                    extraction.document_date, extraction.issuer_nip,
                                    pads_year)]

generate_id_of(prefix_, extraction, doc_type, full_text, pads_year, issuer_nip, document_date, gross_amount) ==
    generated_for(prefix_, extraction, doc_type, pads_year,
                  issuer_nip, document_date, gross_amount,
                  NIPValidator_normalize(issuer_nip),
                  DateNormalizer_normalize(document_date, pads_year),
                  AmountNormalizer_normalize(gross_amount),
                  sha256_hex(encode_utf8(full_text)))

\* _generate_id without the `or ""` and `or "0"` of the absent fields.
generate_id_as_extracted(prefix_, extraction, doc_type, full_text, pads_year) ==
    generate_id_of(prefix_, extraction, doc_type, full_text, pads_year,
                   extraction.issuer_nip, extraction.document_date,
                   String(extraction.gross_amount))

\* DocumentPipeline._generate_id, for a pipeline whose generator has prefix_.
DocumentPipeline_generate_id(prefix_, extraction, doc_type, full_text, pads_year) ==
    generate_id_of(prefix_, extraction, doc_type, full_text, pads_year,
                   Or(extraction.issuer_nip, ""),
                   Or(extraction.document_date, ""),
                   String(Or(extraction.gross_amount, "0")))

\* Steps 3 and 4 of process, given what steps 1 and 2 made of the file, on a
\* pipeline whose generator has prefix_: the kind of the document and what
\* _generate_id returns for it.  The exception of steps 1 and 2 goes past them.
Classified(extracted, doc_type, generated) ==
    [raised |-> None, document_type |-> doc_type,
     canonical_string |-> generated.canonical_string,
     document_id |-> generated.document_id,
     extraction |-> extracted.extraction,
     ocr_result |-> extracted.ocr_result,
     average_confidence |-> extracted.average_confidence]

classify(prefix_, extracted, doc_type, pads_year) ==
    Classified(extracted, doc_type,
               DocumentPipeline_generate_id(prefix_, extracted.extraction, doc_type,
                                            extracted.full_text, pads_year))

classify_and_generate(prefix_, extracted, force_type, pads_year) ==
    IF extracted.raised # None THEN [raised |-> extracted.raised]
    ELSE classify(prefix_, extracted,
                  Or(force_type, _map_category_to_type(extracted.extraction.category)),
                  pads_year)

\* What a process call that raises leaves its caller with.
RaisedByProcess(exception) ==
    [raised |-> exception, document_id |-> None, document_type |-> None,
     canonical_string |-> None, extraction |-> None, ocr_result |-> None,
     ocr_confidence |-> None,
     is_duplicate |-> FALSE, duplicate_of |-> None]

\* Step 5 of process and the ProcessedDocument it returns, on a pipeline whose
\* _processed_ids is cache.
ProcessedDocument(cache, generated) ==
    IF generated.raised # None THEN RaisedByProcess(generated.raised)
    ELSE [raised |-> None, document_id |-> generated.document_id,
          document_type |-> generated.document_type,
          canonical_string |-> generated.canonical_string,
          extraction |-> generated.extraction,
          ocr_result |-> generated.ocr_result,
          ocr_confidence |-> generated.average_confidence,
          is_duplicate |-> generated.canonical_string \in DOMAIN cache,
          duplicate_of |-> IF generated.canonical_string \in DOMAIN cache
                           THEN cache[generated.canonical_string] ELSE None]

\* self._processed_ids[canonical_string] = document_id, whatever is there.
overwritten(cache, canonical_string, document_id) ==
    [c \in DOMAIN cache \cup {canonical_string} |->
        IF c = canonical_string THEN document_id ELSE cache[c]]

\* if canonical_string not in self._processed_ids:
\*     self._processed_ids[canonical_string] = document_id
remembered(cache, canonical_string, document_id) ==
    IF canonical_string \in DOMAIN cache THEN cache
    ELSE overwritten(cache, canonical_string, document_id)

\* A process that records what it returns to its caller whether it raised or not.
cache_after_any(cache, returned) ==
    remembered(cache, returned.canonical_string, returned.document_id)

\* A process that keeps the last document only.
cache_of_last(cache, returned) ==
    IF returned.raised # None THEN cache
    ELSE overwritten(<<>>, returned.canonical_string, returned.document_id)

\* _processed_ids after a process call: one that raises does so before step 5.
cache_after(cache, returned) ==
    IF returned.raised # None THEN cache
    ELSE remembered(cache, returned.canonical_string, returned.document_id)

(***************************************************************************)
(* The normalizers applied to inputs drawn from bounded sets.              *)
(***************************************************************************)

MaxNipLen == 4
MaxNumberLen == 4

NipAlphabet == {"P", "l", "5", "2", " ", "-", "."}
NipInputs ==
    StringsUpTo(NipAlphabet, MaxNipLen)
    \cup {None, "5213017228", "521-301-72-28", "521 301 72 28", "521.301.72.28",
          "PL5213017228", "PL 521-301-72-28", "pl5213017228"}

NumberAlphabet == {"f", "V", "1", "/", " ", "-", "_"}
NumberInputs ==
    StringsUpTo(NumberAlphabet, MaxNumberLen)
    \cup {None, "fv/2025/00142", "FV 2025 142", "FV-2025-142", "fv_2025-00142"}

\* Dates as three runs of digits with a separator after the first and the second,
\* and the same runs written without separators.
DateRuns == {"2025", "0999", "15", "1", "01", "13", "31", "02"}
DateSeparators == {"-", ".", "/", " ", "", "x"}
DateInputs ==
    {r1 \o s1 \o r2 \o s2 \o r3 :
        r1 \in DateRuns, s1 \in DateSeparators, r2 \in DateRuns,
        s2 \in DateSeparators, r3 \in DateRuns}
    \cup {"", " 2025-01-15 ", "15  01\t2025", "2025-01- 5", "15.01.2025r."}

MaxAmountLen == 4
AmountAlphabet == {"1", "5", "0", ",", ".", " ", "-", "z"}
AmountInputs ==
    {String(text) : text \in StringsUpTo(AmountAlphabet, MaxAmountLen)}
    \cup {String(text) : text \in
            {"1 230,50 z}", "1230,50 PLN", "1230.50", "1 230 500,00", "1.230,50",
             "1_000", "1E+30", "1e-3", "nan", "inf", "+5", "-.5", "abc",
             "1230,555", "1230,554", "0,995", "99,995"}}
    \cup {Number(text) : text \in
            {"1230.5", "1230", "1230.555", "1230.554", "45.99", "0.005", "-0.005",
             "0.995", "1e+16", "1e+30", "1e-07", "-0.0", "nan", "inf", "-inf",
             "12345678901234567890123456789"}}

\* Ten-character tax IDs: nine leading digits and every last character.
NipLeadingDigits == {"521301722", "123456321", "123456789", "000000000"}
ValidateInputs ==
    NipInputs
    \cup {leading \o last : leading \in NipLeadingDigits, last \in Digits \cup {SuperscriptTwo}}
    \cup {"", "52130172281", "521301722", "521-301-722-8", "PL 123-456-32-18", "52130172a8",
          "#213017228"}

\* No call has been made; no pipeline is in use.
NoCall ==
    /\ op = "init"
    /\ args = ""
    /\ result = ""
    /\ hash_seed = 0
    /\ processed_ids = <<>>
    /\ history = <<>>
    /\ run = 1
    /\ in_flight = <<>>
    /\ _default_pipeline = <<>>

InitNorm ==
    /\ NoCall
    /\ libc_pads_year \in BOOLEAN
    /\ prefix = "DOC"

\* The caller is between two calls: it holds no result.
Idle == op = "init"

\* The caller drops the last result and is ready for the next call.
Return ==
    /\ ~Idle
    /\ op' = "init"
    /\ args' = ""
    /\ result' = ""
    /\ UNCHANGED <<environment, pipeline_vars>>

NormalizeNip ==
    /\ Idle
    /\ \E nip \in NipInputs :
        /\ op' = "NIPValidator.normalize"
        /\ args' = nip
        /\ result' = NIPValidator_normalize(nip)
        /\ UNCHANGED <<environment, pipeline_vars>>

NormalizeNumber ==
    /\ Idle
    /\ \E number \in NumberInputs :
        /\ op' = "InvoiceNumberNormalizer.normalize"
        /\ args' = number
        /\ result' = InvoiceNumberNormalizer_normalize(number)
        /\ UNCHANGED <<environment, pipeline_vars>>

NormalizeDate ==
    /\ Idle
    /\ \E date_str \in DateInputs :
        /\ op' = "DateNormalizer.normalize"
        /\ args' = date_str
        /\ result' = DateNormalizer_normalize(date_str, libc_pads_year)
        /\ UNCHANGED <<environment, pipeline_vars>>

NormalizeAmount ==
    /\ Idle
    /\ \E amount \in AmountInputs :
        /\ op' = "AmountNormalizer.normalize"
        /\ args' = amount
        /\ result' = AmountNormalizer_normalize(amount)
        /\ UNCHANGED <<environment, pipeline_vars>>

ValidateNip ==
    /\ Idle
    /\ \E nip \in ValidateInputs :
        /\ op' = "NIPValidator.validate"
        /\ args' = nip
        /\ result' = NIPValidator_validate(nip)
        /\ UNCHANGED <<environment, pipeline_vars>>

NextNorm ==
    \/ NormalizeNip
    \/ ValidateNip
    \/ NormalizeNumber
    \/ NormalizeDate
    \/ NormalizeAmount
    \/ Return

SpecNorm == InitNorm /\ [][NextNorm]_vars

(***************************************************************************)
(* The identifier generator applied to business fields in their surface    *)
(* forms.  Each table maps a field value to ways of writing it.            *)
(***************************************************************************)

Prefixes == {"DOC", "ACME", "MY-DOC"}

NipForms ==
    ("5213017228" :> {"5213017228", "521-301-72-28", "521 301 72 28", "521.301.72.28",
                      "PL5213017228", "pl 521-301-72-28"})
    @@ ("1234563218" :> {"PL 123-456-32-18"})

InvoiceNumberForms ==
    ("FV/2025/00142" :> {"FV/2025/00142", "fv/2025/00142", "FV 2025 00142",
                         "FV-2025-00142", "fv_2025_00142"})
    @@ ("FV/2025/00143" :> {"Fv-2025 00143"})
    @@ ("A|B" :> {"a|b"})
    @@ ("A" :> {"A"})

DateForms ==
    ("2025-01-15" :> {"2025-01-15", "15-01-2025", "15.01.2025", "15/01/2025",
                      "2025/01/15", "15 01 2025", "20250115"})
    @@ ("2025-02-28" :> {"28.02.2025"})
    @@ ("B|C" :> {"B|C"})
    @@ ("C" :> {"C"})

AmountForms ==
    ("1230.50" :> {Number("1230.5"), String("1230.50"), String("1 230,50 z}"),
                   String("1230,50 PLN"), String("1 230,50")})
    @@ ("45.00" :> {Number("45")})

FormsOf(table) == UNION {table[value] : value \in DOMAIN table}

\* The value a surface form is a writing of.
ValueOf(table, form) == CHOOSE value \in DOMAIN table : form \in table[value]

OptionalNumbers == {None, "", " ", "12", " u/7 "}
ContentHashes ==
    {"9f86d081884c7d659a2feaa0c55ad015a3bf4f1b2b0b822cd15d6c15b0f00a08",
     "60303ae22b998861bce3b28f33eec1be758a213c86c93c076dbe9f558c11c752"}

InitGen ==
    /\ NoCall
    /\ libc_pads_year \in BOOLEAN
    /\ prefix \in Prefixes

GenerateOps ==
    {"generate_invoice_id", "generate_receipt_id", "generate_contract_id",
     "generate_generic_id"}

\* The canonical string of a generate_* call and the kind it is filed under.
CanonicalOf(name, a, pads_year) ==
    CASE name = "generate_invoice_id" ->
            invoice_canonical(a.seller_nip, a.invoice_number, a.issue_date, a.gross_amount,
                              pads_year)
      [] name = "generate_receipt_id" ->
            receipt_canonical(a.seller_nip, a.receipt_date, a.gross_amount,
                              a.receipt_number, a.cash_register_number, pads_year)
      [] name = "generate_contract_id" ->
            contract_canonical(a.party1_nip, a.party2_nip, a.contract_date,
                               a.contract_number, a.contract_type, pads_year)
      [] name = "generate_generic_id" ->
            generic_canonical(a.content_hash, a.document_date, a.issuer_nip, pads_year)

KindOf(name, a) ==
    CASE name = "generate_invoice_id" -> "INVOICE"
      [] name = "generate_receipt_id" -> "RECEIPT"
      [] name = "generate_contract_id" -> "CONTRACT"
      [] name = "generate_generic_id" -> a.document_type

GenerateInvoiceId ==
    /\ Idle
    /\ \E seller_nip \in FormsOf(NipForms), invoice_number \in FormsOf(InvoiceNumberForms),
          issue_date \in FormsOf(DateForms), gross_amount \in FormsOf(AmountForms) :
        /\ op' = "generate_invoice_id"
        /\ args' = [seller_nip |-> seller_nip, invoice_number |-> invoice_number,
                    issue_date |-> issue_date, gross_amount |-> gross_amount]
        /\ result' = generate_invoice_id(prefix, seller_nip, invoice_number,
                                         issue_date, gross_amount, libc_pads_year)
        /\ UNCHANGED <<environment, pipeline_vars>>

GenerateReceiptId ==
    /\ Idle
    /\ \E seller_nip \in NipForms["1234563218"], receipt_date \in DateForms["2025-02-28"],
          gross_amount \in AmountForms["45.00"] \cup {Number("inf")},
          receipt_number \in OptionalNumbers, cash_register_number \in OptionalNumbers :
        /\ op' = "generate_receipt_id"
        /\ args' = [seller_nip |-> seller_nip, receipt_date |-> receipt_date,
                    gross_amount |-> gross_amount, receipt_number |-> receipt_number,
                    cash_register_number |-> cash_register_number]
        /\ result' = generate_receipt_id(prefix, seller_nip, receipt_date, gross_amount,
                                         receipt_number, cash_register_number,
                                         libc_pads_year)
        /\ UNCHANGED <<environment, pipeline_vars>>

GenerateContractId ==
    /\ Idle
    /\ \E party1_nip \in FormsOf(NipForms) \cup {"", "abc"},
          party2_nip \in FormsOf(NipForms) \cup {"", "abc"},
          contract_date \in DateForms["2025-02-28"],
          contract_number \in {None, "u/7"}, contract_type \in {None, "najem"} :
        /\ op' = "generate_contract_id"
        /\ args' = [party1_nip |-> party1_nip, party2_nip |-> party2_nip,
                    contract_date |-> contract_date, contract_number |-> contract_number,
                    contract_type |-> contract_type]
        /\ result' = generate_contract_id(prefix, party1_nip, party2_nip, contract_date,
                                          contract_number, contract_type,
                                          libc_pads_year)
        /\ UNCHANGED <<environment, pipeline_vars>>

GenerateGenericId ==
    /\ Idle
    /\ \E document_type \in {"OTHER", "BANK_STATEMENT"}, content_hash \in ContentHashes,
          document_date \in {None, "", "15.01.2025"},
          issuer_nip \in {None, "", "521-301-72-28"} :
        /\ op' = "generate_generic_id"
        /\ args' = [document_type |-> document_type, content_hash |-> content_hash,
                    document_date |-> document_date, issuer_nip |-> issuer_nip]
        /\ result' = generate_generic_id(prefix, document_type, content_hash,
                                         document_date, issuer_nip, libc_pads_year)
        /\ UNCHANGED <<environment, pipeline_vars>>

\* parse_id applied to the identifier just generated.
ParseId ==
    /\ op \in GenerateOps
    /\ result # InvalidOperation
    /\ op' = "parse_id"
    /\ args' = result
    /\ result' = parse_id(result)
    /\ UNCHANGED <<environment, pipeline_vars>>

\* verify_id applied to the identifier just generated and a canonical string:
\* the one it was generated from, or that of another document.
VerifyId ==
    /\ op \in GenerateOps
    /\ result # InvalidOperation
    /\ \E canonical_string \in {CanonicalOf(op, args, libc_pads_year), "5213017228|FV/1|2025-01-15|1.00"} :
        /\ op' = "verify_id"
        /\ args' = [document_id |-> result, canonical_string |-> canonical_string]
        /\ result' = verify_id(result, canonical_string)
        /\ UNCHANGED <<environment, pipeline_vars>>

NextGen ==
    \/ GenerateInvoiceId
    \/ GenerateReceiptId
    \/ GenerateContractId
    \/ GenerateGenericId
    \/ ParseId
    \/ VerifyId
    \/ Return

SpecGen == InitGen /\ [][NextGen]_vars

(***************************************************************************)
(* The extractor applied to texts put together from lines of documents.    *)
(***************************************************************************)

Lines ==
    <<"Faktura VAT nr FV/2025/00142\n", "faktura\n", "521-301-72-28 z dnia 15.01.2025\n",
      "Paragon\n", "fv vat\n", "kasa ptu\n", "Umowa termin\n">>

\* The lines chosen, in their order.
RECURSIVE text_of(_, _)
text_of(chosen, i) ==
    IF i > Len(Lines) THEN ""
    ELSE (IF i \in chosen THEN Lines[i] ELSE "") \o text_of(chosen, i + 1)

Texts == {text_of(chosen, 1) : chosen \in SUBSET DOMAIN Lines}

\* What the scanners make of each text.
Scanned == [text \in Texts |-> DocumentOCRResult(text)]

\* Texts of contracts whose sums are 0.4: one keyword under the header, two
\* keywords that name parties, four keywords without either.
ThresholdTexts ==
    {"Umowa\n", "strona wykonawca\n", "porozumienie zlecenie przedmiot termin\n"}

scanned(text) == IF text \in Texts THEN Scanned[text] ELSE DocumentOCRResult(text)

\* confidence >= 0.4
at_least_threshold(confidence) == ~float_gt(Float(40, 0), confidence)

\* confidence > 0.4
above(confidence) == float_gt(confidence, Float(40, 0))

\* return confidence > 0.4, confidence
accepted_with(confidence) == <<bool(above(confidence)), confidence>>

\* extractor.can_extract(ocr_result) of the extractor of a category
can_extract(category, ocr_result) ==
    accepted_with(CASE category = "INVOICE" -> InvoiceExtractor_can_extract(ocr_result)
                    [] category = "RECEIPT" -> ReceiptExtractor_can_extract(ocr_result)
                    [] category = "CONTRACT" -> ContractExtractor_can_extract(ocr_result))

InitExt ==
    /\ NoCall
    /\ libc_pads_year = FALSE
    /\ prefix = "DOC"

\* DocumentExtractor().extract(ocr_result) on what the scanners make of a text
Extract ==
    /\ Idle
    /\ \E text \in Texts :
        /\ op' = "DocumentExtractor.extract"
        /\ args' = text
        /\ result' = DocumentExtractor_extract(Scanned[text])
        /\ UNCHANGED <<environment, pipeline_vars>>

\* can_extract of one of the three extractors on what the scanners make of a text
CanExtract ==
    /\ Idle
    /\ \E text \in Texts \cup ThresholdTexts, category \in {"INVOICE", "RECEIPT", "CONTRACT"} :
        /\ op' = "can_extract"
        /\ args' = [category |-> category, text |-> text]
        /\ result' = can_extract(category, scanned(text))
        /\ UNCHANGED <<environment, pipeline_vars>>

NextExt ==
    \/ Extract
    \/ CanExtract
    \/ Return

SpecExt == InitExt /\ [][NextExt]_vars

(***************************************************************************)
(* The scanners applied to texts of up to three lines, in any order.       *)
(***************************************************************************)

MaxLines == 3

ScanLines ==
    <<"NIP: 521-301-72-28 15.01.2025 1 230,50\n", "1234563218 2025-01-14 12,00 PLN\n",
      "nr FV/2025/00142\n", "nr A 12/2025/07 F-7-2025\n", "NIP 1234563218 15.01.2025\n">>

\* The texts of at most n lines.
RECURSIVE TextsOfLines(_)
TextsOfLines(n) ==
    IF n = 0 THEN {""}
    ELSE TextsOfLines(n - 1)
         \cup {text \o ScanLines[i] : text \in TextsOfLines(n - 1), i \in DOMAIN ScanLines}

InitScan ==
    /\ NoCall
    /\ libc_pads_year = FALSE
    /\ prefix = "DOC"

\* BaseOCRProcessor.extract_structured_data(text)
ExtractStructuredData ==
    /\ Idle
    /\ \E text \in TextsOfLines(MaxLines) :
        /\ op' = "extract_structured_data"
        /\ args' = text
        /\ result' = extract_structured_data(text)
        /\ UNCHANGED <<environment, pipeline_vars>>

NextScan ==
    \/ ExtractStructuredData
    \/ Return

SpecScan == InitScan /\ [][NextScan]_vars

(***************************************************************************)
(* Pipelines processing files.  A Python process starts with a string hash *)
(* seed and pipelines whose caches are empty; it processes files of a      *)
(* small library on them and may be restarted.  history records every     *)
(* process call with what it returned.                                     *)
(***************************************************************************)

\* The process calls and the restarts of a behaviour, taken together.
MaxSteps == 3

Seeds == {0, 1}
Instances == {1, 2}
ForceTypes == {None, "BANK_STATEMENT", "INVOICE", "RECEIPT", "CONTRACT"}

\* A file that can be read: the text of each page and the confidence of the
\* OCR engine on each, in hundredths.
File(pages, confidences) == [readable |-> TRUE, pages |-> pages, confidences |-> confidences]

\* A file that cannot be read.
Unreadable == [readable |-> FALSE, pages |-> <<>>, confidences |-> <<>>]

\* The files, by path.
Files ==
    ("invoice.txt" :>
        File(<<"Faktura VAT nr FV/2025/00142\nSprzedawca NIP: 521-301-72-28\nData wystawienia: 15.01.2025\nBrutto: 1 230,50 z}">>, <<100>>))
    @@ ("invoice.xml" :>
        File(<<"<fv>Faktura nr: fv/2025/00142</fv> NIP 5213017228 data: 2025-01-15 brutto 1230.50 PLN">>, <<100>>))
    @@ ("scan.pdf" :>
        File(<<"Faktura VAT\nSprzedawca NIP: 521-301-72-28\nBrutto: 100,00",
               "Nabywca NIP: 123-456-32-18\nnr FV-2025-00142 data: 15.01.2025">>, <<90, 75>>))
    @@ ("receipt.png" :>
        File(<<"PARAGON FISKALNY\nNIP 521-301-72-28\n2025-02-01\nSUMA PLN 45,00\nnr 12 kasa 3">>,
             <<80>>))
    @@ ("contract.txt" :>
        File(<<"Umowa nr U-7/2025 zawarta w dniu 01.02.2025\nWykonawca NIP 5213017228\nZamawiaj[cy NIP 1234563218">>, <<100>>))
    @@ ("lease.txt" :>
        File(<<"Umowa nr U-7/2025 zawarta w dniu 01.02.2025\nWykonawca NIP 5213017228\nZamawiaj[cy NIP 1234563218\nPrzedmiot najmu: lokal">>, <<100>>))
    @@ ("partial.txt" :> File(<<"Faktura VAT: sprzedawca, nabywca, podatek">>, <<100>>))
    @@ ("note.txt" :> File(<<"hello world">>, <<100>>))
    @@ ("empty.pdf" :> File(<<>>, <<>>))
    @@ ("letter.doc" :> File(<<"hello world">>, <<100>>))
    @@ ("missing.txt" :> Unreadable)
    @@ ("broken.png" :> Unreadable)

\* What steps 1 and 2 of process make of each file under each seed.
Extracted ==
    [file_path \in DOMAIN Files |->
        [seed \in Seeds |-> read_and_extract(file_path, Files[file_path], seed)]]

\* DocumentPipeline(id_prefix="DOC"), the default.
id_prefix == "DOC"

\* What steps 3 and 4 make of them on a pipeline of that prefix, for each kind
\* the caller may force and each C library.
Generated ==
    [prefix_ \in {id_prefix} |->
        [file_path \in DOMAIN Files |->
            [seed \in Seeds |->
                [force_type \in ForceTypes |->
                    [pads_year \in BOOLEAN |->
                        classify_and_generate(prefix_, Extracted[file_path][seed],
                                              force_type, pads_year)]]]]]

\* The process calls of the callers: every file as it is classified, and some
\* files under a kind the caller forces.
Forced ==
    {<<"note.txt", "BANK_STATEMENT">>, <<"note.txt", "INVOICE">>, <<"note.txt", "RECEIPT">>,
     <<"note.txt", "CONTRACT">>, <<"receipt.png", "CONTRACT">>, <<"contract.txt", "INVOICE">>,
     <<"partial.txt", "RECEIPT">>, <<"letter.doc", "INVOICE">>}
ProcessCalls == {<<file_path, None>> : file_path \in DOMAIN Files} \cup Forced

\* The calls of verify_document, get_canonical_string and process_batch.
VerifiedFiles == {"invoice.txt"}
ExpectedIds == {"DOC-FV-0000000000000000"} \cup
    {Generated[id_prefix]["invoice.txt"][0][None][FALSE].document_id}
CanonicalFiles == {"note.txt"}
Batches ==
    {<<"letter.doc", "invoice.txt">>, <<"invoice.txt", "invoice.txt">>,
     <<"note.txt", "missing.txt", "receipt.png">>}

Steps == Len(history) + (run - 1)

InitPipe ==
    /\ op = "init"
    /\ args = ""
    /\ result = ""
    /\ libc_pads_year \in BOOLEAN
    /\ prefix = id_prefix
    /\ hash_seed \in Seeds
    /\ processed_ids = [instance \in Instances |-> <<>>]
    /\ history = <<>>
    /\ run = 1
    /\ in_flight = <<>>
    /\ _default_pipeline = <<>>

\* The process call of this run on a pipeline instance.
Call(instance, file_path, force_type) ==
    [run |-> run, instance |-> instance, file_path |-> file_path, force_type |-> force_type]

\* What process(file_path, force_type) returns on a pipeline whose
\* _processed_ids is cache.
process(cache, file_path, force_type) ==
    ProcessedDocument(cache, Generated[prefix][file_path][hash_seed][force_type][libc_pads_year])

\* A process call that looks the canonical string up and stores nothing.
Looked(instance, file_path, force_type, returned) ==
    /\ processed_ids' = processed_ids
    /\ history' = Append(history, [call |-> Call(instance, file_path, force_type),
                                   returned |-> returned])

\* The pipeline instance and history after a process call of the instance.
Processed(instance, file_path, force_type, returned) ==
    /\ processed_ids' = [processed_ids EXCEPT ![instance] = cache_after(@, returned)]
    /\ history' = Append(history, [call |-> Call(instance, file_path, force_type),
                                   returned |-> returned])

\* pipeline.process(file_path, force_type) on one of the pipelines.
Process ==
    /\ Steps < MaxSteps
    /\ \E instance \in Instances, call \in ProcessCalls :
        /\ op' = "process"
        /\ args' = Call(instance, call[1], call[2])
        /\ result' = process(processed_ids[instance], call[1], call[2])
        /\ Processed(instance, call[1], call[2],
                     process(processed_ids[instance], call[1], call[2]))
        /\ UNCHANGED <<environment, hash_seed, run, in_flight, _default_pipeline>>

\* What a method that returns value of what process returned gives its
\* caller: the exception of process goes through it.
Of(returned, value) ==
    IF returned.raised # None THEN [raised |-> returned.raised, returned |-> None]
    ELSE [raised |-> None, returned |-> value]

\* pipeline.verify_document(file_path, expected_id)
VerifyDocument ==
    /\ Steps < MaxSteps
    /\ \E instance \in Instances, file_path \in VerifiedFiles, expected_id \in ExpectedIds :
        /\ op' = "verify_document"
        /\ args' = [run |-> run, instance |-> instance, file_path |-> file_path,
                    expected_id |-> expected_id]
        /\ result' = Of(process(processed_ids[instance], file_path, None),
                        bool(process(processed_ids[instance], file_path, None).document_id
                             = expected_id))
        /\ Processed(instance, file_path, None,
                     process(processed_ids[instance], file_path, None))
        /\ UNCHANGED <<environment, hash_seed, run, in_flight, _default_pipeline>>

\* pipeline.get_canonical_string(file_path)
GetCanonicalString ==
    /\ Steps < MaxSteps
    /\ \E instance \in Instances, file_path \in CanonicalFiles :
        /\ op' = "get_canonical_string"
        /\ args' = [run |-> run, instance |-> instance, file_path |-> file_path]
        /\ result' = Of(process(processed_ids[instance], file_path, None),
                        process(processed_ids[instance], file_path, None).canonical_string)
        /\ Processed(instance, file_path, None,
                     process(processed_ids[instance], file_path, None))
        /\ UNCHANGED <<environment, hash_seed, run, in_flight, _default_pipeline>>

\* What self.process(file_path) returns for each file of a batch, in order, on
\* a pipeline whose _processed_ids is cache before the first.
RECURSIVE process_each(_, _)
process_each(cache, file_paths) ==
    IF file_paths = <<>> THEN <<>>
    ELSE <<process(cache, Head(file_paths), None)>>
         \o process_each(cache_after(cache, process(cache, Head(file_paths), None)),
                         Tail(file_paths))

\* _processed_ids after each of them.
RECURSIVE cache_after_each(_, _)
cache_after_each(cache, returned) ==
    IF returned = <<>> THEN cache
    ELSE cache_after_each(cache_after(cache, Head(returned)), Tail(returned))

\* results of process_batch: the documents returned, without the duplicates
\* when they are skipped; a file whose process raised leaves nothing.
batch_results(returned, skip_duplicates) ==
    SelectSeq(returned,
              LAMBDA document : /\ document.raised = None
                                /\ ~(skip_duplicates /\ document.is_duplicate))

\* pipeline.process_batch(file_paths, skip_duplicates)
ProcessBatch ==
    /\ \E instance \in Instances, file_paths \in Batches, skip_duplicates \in BOOLEAN :
        /\ Steps + Len(file_paths) <= MaxSteps
        /\ op' = "process_batch"
        /\ args' = [run |-> run, instance |-> instance, file_paths |-> file_paths,
                    skip_duplicates |-> skip_duplicates]
        /\ result' = [raised |-> None,
                      returned |-> batch_results(process_each(processed_ids[instance],
                                                              file_paths),
                                                 skip_duplicates)]
        /\ processed_ids' =
                [processed_ids EXCEPT ![instance] =
                    cache_after_each(@, process_each(processed_ids[instance], file_paths))]
        /\ history' = history \o
                [i \in DOMAIN file_paths |->
                    [call |-> Call(instance, file_paths[i], None),
                     returned |-> process_each(processed_ids[instance], file_paths)[i]]]
        /\ UNCHANGED <<environment, hash_seed, run, in_flight, _default_pipeline>>

\* The Python process ends and another starts: a seed of its own, new pipelines.
Restart ==
    /\ Steps < MaxSteps
    /\ run' = run + 1
    /\ hash_seed' \in Seeds
    /\ processed_ids' = [instance \in Instances |-> <<>>]
    /\ op' = "init"
    /\ args' = ""
    /\ result' = ""
    /\ UNCHANGED <<environment, history, in_flight, _default_pipeline>>

NextPipe ==
    \/ Process
    \/ VerifyDocument
    \/ GetCanonicalString
    \/ ProcessBatch
    \/ Restart

SpecPipe == InitPipe /\ [][NextPipe]_vars

(***************************************************************************)
(* Threads calling process on the pipelines of one Python process.  The     *)
(* code takes no lock: a thread may be switched out between any two of its  *)
(* steps, so the test of step 5 and the assignment that follows it are      *)
(* steps of their own.                                                      *)
(***************************************************************************)

Threads == {1, 2, 3}
ConcurrentFiles == {"invoice.txt", "invoice.xml", "note.txt", "letter.doc"}

\* A thread that is not in process.
NotCalling ==
    [pc |-> "idle", instance |-> 0, file_path |-> "", is_duplicate |-> FALSE,
     duplicate_of |-> None]

InitConc ==
    /\ op = "init"
    /\ args = ""
    /\ result = ""
    /\ libc_pads_year = FALSE
    /\ prefix = id_prefix
    /\ hash_seed = 0
    /\ processed_ids = [instance \in Instances |-> <<>>]
    /\ history = <<>>
    /\ run = 1
    /\ in_flight = [thread \in Threads |-> NotCalling]
    /\ _default_pipeline = <<>>

\* What steps 1 to 4 of the call of a thread made of its file.
generated_by(local) ==
    Generated[prefix][local.file_path][hash_seed][None][libc_pads_year]

\* The step of a thread, for the record.
Stepped(name, thread, local) ==
    /\ op' = name
    /\ args' = [run |-> run, thread |-> thread, instance |-> local.instance,
                file_path |-> local.file_path]
    /\ in_flight' = [in_flight EXCEPT ![thread] = local]

\* A thread calls process: steps 1 to 4, and is_duplicate = False,
\* duplicate_of = None of step 5.  A file that cannot be processed raises.
Enter(thread) ==
    /\ in_flight[thread].pc = "idle"
    /\ \E instance \in Instances, file_path \in ConcurrentFiles :
        /\ Stepped("enter", thread,
                   [pc |-> IF generated_by([file_path |-> file_path]).raised # None
                           THEN "raising" ELSE "generated",
                    instance |-> instance, file_path |-> file_path,
                    is_duplicate |-> FALSE, duplicate_of |-> None])
        /\ result' = ""
        /\ UNCHANGED <<environment, hash_seed, processed_ids, history, run, _default_pipeline>>

\* if canonical_string in self._processed_ids: is_duplicate = True;
\* duplicate_of = self._processed_ids[canonical_string]
Lookup(thread) ==
    /\ in_flight[thread].pc = "generated"
    /\ Stepped("lookup", thread,
               IF generated_by(in_flight[thread]).canonical_string
                  \in DOMAIN processed_ids[in_flight[thread].instance]
               THEN [in_flight[thread] EXCEPT
                        !.pc = "returning",
                        !.is_duplicate = TRUE,
                        !.duplicate_of =
                            processed_ids[in_flight[thread].instance]
                                         [generated_by(in_flight[thread]).canonical_string]]
               ELSE [in_flight[thread] EXCEPT !.pc = "inserting"])
    /\ result' = ""
    /\ UNCHANGED <<environment, hash_seed, processed_ids, history, run, _default_pipeline>>

\* else: self._processed_ids[canonical_string] = document_id
Insert(thread) ==
    /\ in_flight[thread].pc = "inserting"
    /\ processed_ids' =
            [processed_ids EXCEPT ![in_flight[thread].instance] =
                overwritten(@, generated_by(in_flight[thread]).canonical_string,
                            generated_by(in_flight[thread]).document_id)]
    /\ Stepped("insert", thread, [in_flight[thread] EXCEPT !.pc = "returning"])
    /\ result' = ""
    /\ UNCHANGED <<environment, hash_seed, history, run, _default_pipeline>>

\* The ProcessedDocument of the call of a thread.
document_of(local, document) ==
    [document EXCEPT !.is_duplicate = local.is_duplicate,
                     !.duplicate_of = local.duplicate_of]

returned_to(local) ==
    IF local.pc = "raising" THEN RaisedByProcess(generated_by(local).raised)
    ELSE document_of(local, ProcessedDocument(<<>>, generated_by(local)))

\* return ProcessedDocument(...), or the exception of steps 1 to 4 reaches the
\* caller; the thread ends.
ReturnDocument(thread) ==
    /\ in_flight[thread].pc \in {"returning", "raising"}
    /\ Stepped("return", thread, [in_flight[thread] EXCEPT !.pc = "done"])
    /\ result' = returned_to(in_flight[thread])
    /\ history' = Append(history,
                         [call |-> Call(in_flight[thread].instance,
                                        in_flight[thread].file_path, None),
                          returned |-> returned_to(in_flight[thread])])
    /\ UNCHANGED <<environment, hash_seed, processed_ids, run, _default_pipeline>>

NextConc ==
    \E thread \in Threads :
        \/ Enter(thread)
        \/ Lookup(thread)
        \/ Insert(thread)
        \/ ReturnDocument(thread)

SpecConc == InitConc /\ [][NextConc]_vars

(***************************************************************************)
(* The helpers of the module (process_document, get_document_id,           *)
(* verify_document_id) on its default pipeline.  The engines read the same *)
(* text of a file.                                                         *)
(***************************************************************************)

OCREngine == {"paddle", "tesseract", "easyocr"}

\* _default_pipeline: Optional[DocumentPipeline] = None
NoPipeline == [preferred_engine |-> None, _processed_ids |-> <<>>]

\* DocumentPipeline(ocr_engine=ocr_engine)
DocumentPipeline(ocr_engine) == [preferred_engine |-> ocr_engine, _processed_ids |-> <<>>]

\* A get_pipeline that makes a pipeline when there is none and keeps it.
get_pipeline_once(default, ocr_engine) ==
    IF default = NoPipeline THEN DocumentPipeline(ocr_engine) ELSE default

\* _default_pipeline after get_pipeline(ocr_engine), which returns it.
get_pipeline(default, ocr_engine) ==
    IF default = NoPipeline \/ default.preferred_engine # ocr_engine
    THEN DocumentPipeline(ocr_engine)
    ELSE default

HelperFiles == {"invoice.txt", "invoice.xml", "note.txt", "missing.txt"}

InitHelpers ==
    /\ op = "init"
    /\ args = ""
    /\ result = ""
    /\ libc_pads_year = FALSE
    /\ prefix = id_prefix
    /\ hash_seed = 0
    /\ processed_ids = <<>>
    /\ history = <<>>
    /\ run = 1
    /\ in_flight = <<>>
    /\ _default_pipeline = NoPipeline

\* get_pipeline(ocr_engine).process(file_path): the default pipeline and the
\* history after it.
ProcessedByDefault(helper, pipeline, file_path, ocr_engine) ==
    /\ _default_pipeline' =
            [pipeline EXCEPT !._processed_ids =
                cache_after(@, process(pipeline._processed_ids, file_path, None))]
    /\ history' = Append(history,
                         [call |-> [helper |-> helper, file_path |-> file_path,
                                    ocr_engine |-> ocr_engine],
                          returned |-> process(pipeline._processed_ids, file_path, None)])

\* process_document(file_path, ocr_engine)
ProcessDocument ==
    /\ Len(history) < MaxSteps
    /\ \E file_path \in HelperFiles, ocr_engine \in OCREngine :
        /\ op' = "process_document"
        /\ args' = [file_path |-> file_path, ocr_engine |-> ocr_engine]
        /\ result' = process(get_pipeline(_default_pipeline, ocr_engine)._processed_ids,
                             file_path, None)
        /\ ProcessedByDefault("process_document", get_pipeline(_default_pipeline, ocr_engine),
                              file_path, ocr_engine)
        /\ UNCHANGED <<environment, hash_seed, processed_ids, run, in_flight>>

\* get_document_id(file_path)
GetDocumentId ==
    /\ Len(history) < MaxSteps
    /\ \E file_path \in HelperFiles :
        /\ op' = "get_document_id"
        /\ args' = [file_path |-> file_path]
        /\ result' = Of(process(get_pipeline(_default_pipeline, "tesseract")._processed_ids,
                                file_path, None),
                        process(get_pipeline(_default_pipeline, "tesseract")._processed_ids,
                                file_path, None).document_id)
        /\ ProcessedByDefault("get_document_id", get_pipeline(_default_pipeline, "tesseract"),
                              file_path, "tesseract")
        /\ UNCHANGED <<environment, hash_seed, processed_ids, run, in_flight>>

\* verify_document_id(file_path, expected_id)
VerifyDocumentId ==
    /\ Len(history) < MaxSteps
    /\ \E file_path \in HelperFiles, expected_id \in ExpectedIds :
        /\ op' = "verify_document_id"
        /\ args' = [file_path |-> file_path, expected_id |-> expected_id]
        /\ result' = Of(process(get_pipeline(_default_pipeline, "tesseract")._processed_ids,
                                file_path, None),
                        bool(process(get_pipeline(_default_pipeline, "tesseract")._processed_ids,
                                     file_path, None).document_id = expected_id))
        /\ ProcessedByDefault("verify_document_id", get_pipeline(_default_pipeline, "tesseract"),
                              file_path, "tesseract")
        /\ UNCHANGED <<environment, hash_seed, processed_ids, run, in_flight>>

NextHelpers ==
    \/ ProcessDocument
    \/ GetDocumentId
    \/ VerifyDocumentId

SpecHelpers == InitHelpers /\ [][NextHelpers]_vars

(***************************************************************************)
(* UniversalDocumentIDGenerator (document_id_universal.py).  A file is     *)
(* what the code reads of it: whether it exists, its stat, its bytes and,  *)
(* for a PDF or an image, what PyMuPDF and Pillow report.  A float of      *)
(* seconds is the number of its thousandths; the sizes of pages are whole  *)
(* numbers of points.  The digests of the pixels of an image and of the    *)
(* metadata of a PDF are taken from the file as they are.                  *)
(***************************************************************************)

RaisedFileNotFoundError == "<FileNotFoundError>"
RaisedImportError == "<ImportError>"

\* What a call that raises leaves in place of the features.
Raised(exception) == [raised |-> exception]

\* An Optional number: () when it is None.
NoNumber == <<>>
Some(n) == <<n>>

\* str(n) of an int
RECURSIVE nat_str(_)
nat_str(n) ==
    IF n < 10 THEN CharAt("0123456789", n + 1)
    ELSE nat_str(n \div 10) \o CharAt("0123456789", (n % 10) + 1)

int_str(n) == IF n < 0 THEN "-" \o nat_str(0 - n) ELSE nat_str(n)

\* int(t) of a float of seconds: towards zero
int_seconds(thousandths) ==
    IF thousandths >= 0 THEN thousandths \div 1000 ELSE 0 - ((0 - thousandths) \div 1000)

\* hashlib.sha256(text.encode()).hexdigest()[:16]
hexdigest16(text) == SubSeq(sha256_hex(encode_utf8(text)), 1, 16)

UniversalDocumentFeatures(file_type, file_size, content_hash) ==
    [file_type |-> file_type, file_size |-> file_size, content_hash |-> content_hash,
     visual_hash |-> None, text_hash |-> None, metadata_hash |-> None,
     structure_hash |-> None, color_profile_hash |-> None, dimensions |-> "",
     page_count |-> NoNumber, creation_time |-> NoNumber, modification_time |-> NoNumber]

\* The content features of the pages from page_num on, and their text.
RECURSIVE page_features(_, _)
page_features(pages, page_num) ==
    IF page_num > Len(pages) THEN <<>>
    ELSE LET page == pages[page_num]
             name == "page_" \o int_str(page_num - 1)
         IN  <<name \o "_text_length:" \o int_str(Len(page.text)),
               name \o "_images:" \o int_str(page.images),
               name \o "_size:" \o int_str(page.width) \o ".00x" \o int_str(page.height) \o ".00",
               name \o "_drawings:" \o int_str(page.drawings),
               name \o "_fonts:" \o int_str(page.fonts)>>
             \o page_features(pages, page_num + 1)

RECURSIVE text_content(_)
text_content(pages) ==
    IF pages = <<>> THEN "" ELSE Head(pages).text \o text_content(Tail(pages))

\* extract_pdf_features: visual_hash is None when the first page cannot be
\* rendered or Pillow is not there.
extract_pdf_features(file, PIL_AVAILABLE) ==
    [UniversalDocumentFeatures("PDF", file.st_size,
                               hexdigest16(str_join("\n", page_features(file.pages, 1))))
     EXCEPT !.text_hash = IF text_content(file.pages) # ""
                          THEN hexdigest16(text_content(file.pages)) ELSE None,
            !.metadata_hash = file.metadata_hash,
            !.visual_hash = IF PIL_AVAILABLE /\ Len(file.pages) > 0
                            THEN file.visual_hash ELSE None,
            !.dimensions = IF Len(file.pages) > 0
                           THEN "(" \o int_str(file.pages[1].width) \o ".0, "
                                \o int_str(file.pages[1].height) \o ".0)"
                           ELSE "",
            !.page_count = Some(Len(file.pages)),
            !.creation_time = Some(file.st_ctime),
            !.modification_time = Some(file.st_mtime)]

\* extract_image_features
extract_image_features(file) ==
    LET dimensions == file.size
        content_features ==
            <<"size:" \o int_str(dimensions[1]) \o "x" \o int_str(dimensions[2]),
              "mode:RGB",
              "visual_hash:" \o file.visual_hash,
              "color_hash:" \o file.color_hash,
              "file_size:" \o int_str(file.st_size)>>
    IN  [UniversalDocumentFeatures("IMAGE", file.st_size,
                                   hexdigest16(str_join("\n", content_features)))
         EXCEPT !.visual_hash = file.visual_hash,
                !.color_profile_hash = file.color_hash,
                !.dimensions = "(" \o int_str(dimensions[1]) \o ", "
                               \o int_str(dimensions[2]) \o ")",
                !.creation_time = Some(file.st_ctime),
                !.modification_time = Some(file.st_mtime)]

\* extract_generic_features: the digest of the bytes, of str(file_size) when
\* the file cannot be opened.
extract_generic_features(file_path, file) ==
    [UniversalDocumentFeatures(str_replace(str_upper(path_suffix(file_path)), ".", ""),
                               file.st_size,
                               IF file.readable THEN hexdigest16(file.content)
                               ELSE hexdigest16(int_str(file.st_size)))
     EXCEPT !.creation_time = Some(file.st_ctime),
            !.modification_time = Some(file.st_mtime)]

ImageSuffixes == {".jpg", ".jpeg", ".png", ".gif", ".bmp", ".tiff", ".webp"}

\* get_document_features: the features, or the exception raised.
get_document_features(file_path, file, PYMUPDF_AVAILABLE, PIL_AVAILABLE) ==
    CASE ~file.exists -> Raised(RaisedFileNotFoundError)
      [] path_suffix(file_path) = ".pdf" ->
            IF PYMUPDF_AVAILABLE THEN extract_pdf_features(file, PIL_AVAILABLE)
            ELSE Raised(RaisedImportError)
      [] path_suffix(file_path) \in ImageSuffixes ->
            IF PIL_AVAILABLE THEN extract_image_features(file) ELSE Raised(RaisedImportError)
      [] OTHER -> extract_generic_features(file_path, file)

\* x or "" of an Optional[str]
or_empty(x) == IF Truthy(x) THEN x ELSE ""

\* str(int(t)) if t else "": None and 0 are false
seconds_or_empty(t) ==
    IF t = NoNumber \/ t = Some(0) THEN "" ELSE int_str(int_seconds(t[1]))

\* canonical_data of generate_universal_id; features.dimensions is
\* str(dimensions), "" when dimensions is None
canonical_data(features) ==
    <<features.file_type,
      int_str(features.file_size),
      features.content_hash,
      or_empty(features.visual_hash),
      or_empty(features.text_hash),
      or_empty(features.metadata_hash),
      or_empty(features.structure_hash),
      or_empty(features.color_profile_hash),
      features.dimensions,
      IF features.page_count = NoNumber \/ features.page_count = Some(0)
      THEN "" ELSE int_str(features.page_count[1]),
      seconds_or_empty(features.creation_time),
      seconds_or_empty(features.modification_time)>>

\* "|".join(canonical_data)
universal_canonical_string(features) == str_join("|", canonical_data(features))

type_codes ==
    ("PDF" :> "PDF") @@ ("IMAGE" :> "IMG") @@ ("JPG" :> "IMG") @@ ("JPEG" :> "IMG")
    @@ ("PNG" :> "IMG") @@ ("GIF" :> "IMG") @@ ("BMP" :> "IMG") @@ ("TIFF" :> "IMG")
    @@ ("WEBP" :> "IMG")

\* features.file_type[:3].upper()
first_three(file_type) ==
    str_upper(SubSeq(file_type, 1, IF Len(file_type) < 3 THEN Len(file_type) ELSE 3))

\* type_codes.get(features.file_type, features.file_type[:3].upper())
type_code(file_type) ==
    IF file_type \in DOMAIN type_codes THEN type_codes[file_type] ELSE first_three(file_type)

\* generate_universal_id given the features, for a generator of a prefix
universal_id(prefix_, features) ==
    IF "raised" \in DOMAIN features THEN features.raised
    ELSE prefix_ \o "-" \o type_code(features.file_type) \o "-"
         \o str_upper(hexdigest16(universal_canonical_string(features)))

\* UniversalDocumentIDGenerator(prefix).generate_universal_id(file_path)
generate_universal_id(prefix_, file_path, file, PYMUPDF_AVAILABLE, PIL_AVAILABLE) ==
    universal_id(prefix_, get_document_features(file_path, file, PYMUPDF_AVAILABLE,
                                                PIL_AVAILABLE))

(***************************************************************************)
(* The universal generator applied to files of every kind, with time       *)
(* stamps before, at and after the epoch, with and without PyMuPDF and     *)
(* Pillow installed.                                                       *)
(***************************************************************************)

Page(text, images) ==
    [text |-> text, images |-> images, width |-> 595, height |-> 842, drawings |-> 0,
     fonts |-> IF text = "" THEN 0 ELSE 1]

GenericFile(content, readable) ==
    [exists |-> TRUE, readable |-> readable, content |-> content, st_size |-> Len(content)]

PdfFile(st_size, pages, visual_hash) ==
    [exists |-> TRUE, st_size |-> st_size, pages |-> pages, visual_hash |-> visual_hash,
     metadata_hash |-> "44136fa355b3678a"]

ImageFile(st_size, size, visual_hash, color_hash) ==
    [exists |-> TRUE, st_size |-> st_size, size |-> size, visual_hash |-> visual_hash,
     color_hash |-> color_hash]

UniversalFiles ==
    ("note.txt" :> GenericFile("hello world", TRUE))
    @@ ("empty.txt" :> GenericFile("", TRUE))
    @@ ("locked.txt" :> GenericFile("hello world", FALSE))
    @@ ("scan.tif" :> GenericFile("hello world", TRUE))
    @@ ("a.image" :> GenericFile("hello world", TRUE))
    @@ ("a.x|y" :> GenericFile("hello world", TRUE))
    @@ ("noext" :> GenericFile("hello world", TRUE))
    @@ ("scan.pdf" :> PdfFile(1230, <<Page("Faktura VAT", 0), Page("Brutto: 100,00", 0)>>,
                              "9f86d081884c7d65"))
    @@ ("blank.pdf" :> PdfFile(870, <<Page("", 1)>>, None))
    @@ ("photo.png" :> ImageFile(2048, <<800, 600>>, "2c26b46b68ffc68f", "fcde2b2edba56bf4"))
    @@ ("PHOTO.JPG" :> ImageFile(512, <<32, 32>>, "2c26b46b68ffc68f", "18ac3e7343f01689"))
    @@ ("missing.txt" :> [exists |-> FALSE])

\* st_ctime and st_mtime, in thousandths of a second
CreationTimes == {1500, 86400250}
ModificationTimes == {-1500, 0, 500, 86400250}

InitUniv ==
    /\ NoCall
    /\ libc_pads_year = FALSE
    /\ prefix = "UNIV"

\* The file of a call: the one at the path with the time stamps of the call.
file_of(call) ==
    IF UniversalFiles[call.file_path].exists
    THEN [field \in DOMAIN UniversalFiles[call.file_path] \cup {"st_ctime", "st_mtime"} |->
            CASE field = "st_ctime" -> call.st_ctime
              [] field = "st_mtime" -> call.st_mtime
              [] OTHER -> UniversalFiles[call.file_path][field]]
    ELSE UniversalFiles[call.file_path]

\* The features get_document_features takes from the file of a call.
features_of(call) ==
    get_document_features(call.file_path, file_of(call), call.PYMUPDF_AVAILABLE,
                          call.PIL_AVAILABLE)

\* UniversalDocumentIDGenerator().generate_universal_id(file_path)
GenerateUniversalId ==
    /\ Idle
    /\ \E file_path \in DOMAIN UniversalFiles, st_ctime \in CreationTimes,
          st_mtime \in ModificationTimes, PYMUPDF_AVAILABLE \in BOOLEAN,
          PIL_AVAILABLE \in BOOLEAN :
        /\ op' = "generate_universal_id"
        /\ args' = [file_path |-> file_path, st_ctime |-> st_ctime, st_mtime |-> st_mtime,
                    PYMUPDF_AVAILABLE |-> PYMUPDF_AVAILABLE, PIL_AVAILABLE |-> PIL_AVAILABLE]
        /\ result' = generate_universal_id(prefix, file_path, file_of(args'),
                                            PYMUPDF_AVAILABLE, PIL_AVAILABLE)
        /\ UNCHANGED <<environment, pipeline_vars>>

NextUniv ==
    \/ GenerateUniversalId
    \/ Return

SpecUniv == InitUniv /\ [][NextUniv]_vars

(***************************************************************************)
(* Properties of the normalizers, checked under SpecNorm.                  *)
(***************************************************************************)

\* C3: the tax-ID normalizer is idempotent: for every string x, normalizing
\* the normalized value gives the normalized value again.
NipNormalizeIdempotent ==
    op = "NIPValidator.normalize" => NIPValidator_normalize(result) = result

\* C4: the amount normalizer is idempotent: for every number or string x for
\* which it returns, normalizing what it returned gives the same string again.
AmountNormalizeIdempotent ==
    (op = "AmountNormalizer.normalize" /\ result # InvalidOperation)
        => AmountNormalizer_normalize(String(result)) = result

\* C5: the date normalizer is idempotent: for every string x, whether matched
\* by a format, rewritten by the digit-run fallback or returned unchanged,
\* normalizing the normalized value gives the normalized value again.
DateNormalizeIdempotent ==
    op = "DateNormalizer.normalize" =>
        DateNormalizer_normalize(result, libc_pads_year) = result

\* C6: the document-number normalizer is idempotent, and its output never
\* contains white space, "-", "_", a doubled "/", or a leading or trailing "/".
NumberNormalizeIdempotentAndClean ==
    op = "InvoiceNumberNormalizer.normalize" =>
        /\ InvoiceNumberNormalizer_normalize(result) = result
        /\ \A i \in 1..Len(result) : CharAt(result, i) \notin Whitespace \cup {"-", "_"}
        /\ \A i \in 1..(Len(result) - 1) : SubSeq(result, i, i + 1) # "//"
        /\ result # "" => (Head(result) # "/" /\ CharAt(result, Len(result)) # "/")

\* A number written in lower case with a run of two separators has been
\* normalized.
NumberNormalizeRewrites ==
    /\ op = "InvoiceNumberNormalizer.normalize"
    /\ args = "f-_1"
    /\ result = "F/1"

\* C17: NIPValidator.validate returns true exactly for the inputs that
\* normalize to ten decimal digits d1..d10 with
\* (6*d1 + 5*d2 + 7*d3 + 2*d4 + 3*d5 + 4*d6 + 5*d7 + 6*d8 + 7*d9) mod 11 = d10,
\* and false for every other input: one of another length, one with a
\* character that is not a decimal digit, one whose weighted sum is congruent
\* to 10.
ValidateIsTheChecksumPredicate ==
    op = "NIPValidator.validate" =>
        result = bool(/\ Len(NIPValidator_normalize(args)) = 10
                      /\ \A i \in 1..10 : CharAt(NIPValidator_normalize(args), i) \in Digits
                      /\ (  6 * digit_value[CharAt(NIPValidator_normalize(args), 1)]
                          + 5 * digit_value[CharAt(NIPValidator_normalize(args), 2)]
                          + 7 * digit_value[CharAt(NIPValidator_normalize(args), 3)]
                          + 2 * digit_value[CharAt(NIPValidator_normalize(args), 4)]
                          + 3 * digit_value[CharAt(NIPValidator_normalize(args), 5)]
                          + 4 * digit_value[CharAt(NIPValidator_normalize(args), 6)]
                          + 5 * digit_value[CharAt(NIPValidator_normalize(args), 7)]
                          + 6 * digit_value[CharAt(NIPValidator_normalize(args), 8)]
                          + 7 * digit_value[CharAt(NIPValidator_normalize(args), 9)]) % 11
                         = digit_value[CharAt(NIPValidator_normalize(args), 10)])

\* C17 without the characters that are digits for str.isdigit() only: on an
\* input whose normalized form has no such character validate is the checksum
\* predicate.
ValidateOfDecimalDigits ==
    (/\ op = "NIPValidator.validate"
     /\ \A i \in 1..Len(NIPValidator_normalize(args)) :
            CharAt(NIPValidator_normalize(args), i) # SuperscriptTwo) =>
        /\ result \in {bool(TRUE), bool(FALSE)}
        /\ result = bool(TRUE) <=>
            /\ Len(NIPValidator_normalize(args)) = 10
            /\ \A i \in 1..10 : CharAt(NIPValidator_normalize(args), i) \in Digits
            /\ nip_checksum(NIPValidator_normalize(args), 9) % 11
               = digit_value[CharAt(NIPValidator_normalize(args), 10)]

\* C18: no normalizer raises: for every input, numbers that are not finite or
\* very large included, the tax-ID, amount, date and document-number
\* normalizers return a string, and an amount that cannot be parsed gives
\* "0.00".
NoNormalizerRaises ==
    op \in {"NIPValidator.normalize", "InvoiceNumberNormalizer.normalize",
            "DateNormalizer.normalize", "AmountNormalizer.normalize"} =>
        /\ result \notin {InvalidOperation, RaisedValueError}
        /\ (/\ op = "AmountNormalizer.normalize"
            /\ ~args.is_number
            /\ \A i \in 1..Len(args.text) : CharAt(args.text, i) \notin Digits) =>
                result = "0.00"

\* A string is a two-fraction-digit decimal: an optional "-", digits, ".", two digits.
two_fraction_digits(s) ==
    LET unsigned == IF s # "" /\ Head(s) = "-" THEN Tail(s) ELSE s
    IN  /\ Len(unsigned) >= 4
        /\ CharAt(unsigned, Len(unsigned) - 2) = "."
        /\ str_isdigit(SubSeq(unsigned, 1, Len(unsigned) - 3))
        /\ str_isdigit(SubSeq(unsigned, Len(unsigned) - 1, Len(unsigned)))

\* The text of the value normalize rounds: str(amount) of a number, the cleaned
\* text of a string.
amount_text(amount) == IF amount.is_number THEN amount.text ELSE AmountCleaned(amount.text)

\* A text in plain notation, [-]digits[.digits] with at least one digit before
\* the point, of a size whose cents are below 2^31.
plain_decimal(text) ==
    LET unsigned == IF text # "" /\ Head(text) = "-" THEN Tail(text) ELSE text
        dot      == str_rfind_dot(unsigned)
        whole    == IF dot = 0 THEN unsigned ELSE SubSeq(unsigned, 1, dot - 1)
        fraction == IF dot = 0 THEN "" ELSE SubSeq(unsigned, dot + 1, Len(unsigned))
    IN  /\ str_isdigit(whole)
        /\ Len(whole) <= 7
        /\ fraction = "" \/ str_isdigit(fraction)

\* The cents of a plain text rounded half-up: those of its two first fraction
\* digits, one more when the third fraction digit is 5 or more.
cents_half_up(text) ==
    LET unsigned == IF Head(text) = "-" THEN Tail(text) ELSE text
        dot      == str_rfind_dot(unsigned)
        whole    == IF dot = 0 THEN unsigned ELSE SubSeq(unsigned, 1, dot - 1)
        fraction == IF dot = 0 THEN "" ELSE SubSeq(unsigned, dot + 1, Len(unsigned))
        third    == IF Len(fraction) >= 3 THEN digit_value[CharAt(fraction, 3)] ELSE 0
    IN  int_of(whole \o SubSeq(fraction \o "00", 1, 2)) + (IF third >= 5 THEN 1 ELSE 0)

\* The cents of a two-fraction-digit decimal.
cents_of(s) ==
    LET unsigned == IF Head(s) = "-" THEN Tail(s) ELSE s
    IN  int_of(SubSeq(unsigned, 1, Len(unsigned) - 3)
               \o SubSeq(unsigned, Len(unsigned) - 1, Len(unsigned)))

\* The result is the value of the call rounded half-up to cents, when the
\* value is in plain notation.
rounded_half_up(amount, normalized) ==
    plain_decimal(amount_text(amount)) =>
        /\ two_fraction_digits(normalized)
        /\ cents_of(normalized) = cents_half_up(amount_text(amount))
        /\ (Head(normalized) = "-") = (Head(amount_text(amount)) = "-")

\* C26: the amount normalizer rounds to whole cents with ties broken upward,
\* for numbers and strings alike: a third decimal digit of 5 or more rounds up
\* to the next cent, one below 5 rounds down (1230.555 gives "1230.56" and
\* 1230.554 gives "1230.55"); the output always has exactly two fraction digits.
AmountRoundsHalfUpToTwoDigits ==
    op = "AmountNormalizer.normalize" =>
        /\ rounded_half_up(args, result)
        /\ two_fraction_digits(result)

\* The rounding of C26 without its last clause: a number or a string whose
\* value is written in plain notation is rounded half-up to cents, and every
\* string gives a two-fraction-digit decimal.
PlainAmountRoundsHalfUp ==
    op = "AmountNormalizer.normalize" =>
        /\ rounded_half_up(args, result)
        /\ ~args.is_number => two_fraction_digits(result)

\* A tie was rounded up: the third decimal digit of the value is 5.
AmountTieRoundedUp ==
    /\ op = "AmountNormalizer.normalize"
    /\ args \in {Number("1230.555"), String("1230,555")}
    /\ result = "1230.56"

(***************************************************************************)
(* Properties of the identifier generator, checked under SpecGen.          *)
(***************************************************************************)

\* C1: generate_invoice_id returns the same identifier for every surface form
\* of the same four invoice fields: the identifier of any writing of the
\* seller NIP, invoice number, issue date and gross amount is the identifier
\* of the plain writing of the values they stand for.
InvoiceIdSameForEveryForm ==
    op = "generate_invoice_id" =>
        result = generate_invoice_id(prefix,
                                     ValueOf(NipForms, args.seller_nip),
                                     ValueOf(InvoiceNumberForms, args.invoice_number),
                                     ValueOf(DateForms, args.issue_date),
                                     String(ValueOf(AmountForms, args.gross_amount)),
                                     libc_pads_year)

\* An invoice whose four fields are all written unlike the plain writing has
\* been given an identifier.
InvoiceIdOfRewrittenFields ==
    /\ op = "generate_invoice_id"
    /\ args.seller_nip = "pl 521-301-72-28"
    /\ args.invoice_number = "fv_2025_00142"
    /\ args.issue_date = "15 01 2025"
    /\ args.gross_amount = Number("1230.5")
    /\ result # InvalidOperation

\* C7: contract identifiers do not depend on party order: the call with the
\* two tax IDs swapped and the other arguments equal returns the same identifier.
ContractIdSameForSwappedParties ==
    op = "generate_contract_id" =>
        result = generate_contract_id(prefix, args.party2_nip, args.party1_nip,
                                      args.contract_date, args.contract_number,
                                      args.contract_type, libc_pads_year)

\* A contract whose first party has the larger tax ID, so that sorting swaps
\* the two, has been given an identifier.
ContractIdOfUnsortedParties ==
    /\ op = "generate_contract_id"
    /\ args.party1_nip = "521.301.72.28"
    /\ args.party2_nip = "PL 123-456-32-18"
    /\ str_lt(NIPValidator_normalize(args.party2_nip), NIPValidator_normalize(args.party1_nip))

UpperHexDigits == Digits \cup {"A", "B", "C", "D", "E", "F"}

\* C8: every identifier a generate_* operation returns, whatever the prefix of
\* the generator, splits on "-" into exactly three pieces: the prefix, the kind
\* code and 16 upper-case hexadecimal characters; parse_id returns those
\* pieces and the kind; a generator with another prefix returns an identifier
\* that differs in the first piece only.
IdentifierHasThreePieces ==
    (op \in GenerateOps /\ result # InvalidOperation) =>
        LET pieces == str_split(result, "-")
            kind   == KindOf(op, args)
        IN  /\ Len(pieces) = 3
            /\ pieces[1] = prefix
            /\ pieces[2] = DocumentType[kind]
            /\ Len(pieces[3]) = 16
            /\ \A i \in 1..16 : CharAt(pieces[3], i) \in UpperHexDigits
            /\ parse_id(result) = [raised |-> None, prefix |-> prefix,
                                   type |-> DocumentType[kind], hash |-> pieces[3],
                                   document_type |-> kind]
            /\ \A other \in Prefixes :
                LET theirs == str_split(generate(other, kind, CanonicalOf(op, args, libc_pads_year)), "-")
                IN  /\ Len(theirs) = 3
                    /\ theirs[1] = other
                    /\ theirs[2] = pieces[2]
                    /\ theirs[3] = pieces[3]

\* C11: in a recipe with two optional trailing fields, an absent earlier field
\* followed by a present later one keeps its position: a receipt with no
\* receipt number and cash register X, and the receipt with receipt number X
\* and no cash register, have different canonical strings and different
\* identifiers; likewise a contract with no number and type X, and the
\* contract with number X and no type.
OptionalFieldKeepsItsPosition ==
    /\ (/\ op = "generate_receipt_id"
        /\ result # InvalidOperation
        /\ args.receipt_number = None
        /\ OptionalPart(args.cash_register_number) \notin {<<>>, <<"">>}) =>
            /\ receipt_canonical(args.seller_nip, args.receipt_date, args.gross_amount,
                                 None, args.cash_register_number, libc_pads_year)
               # receipt_canonical(args.seller_nip, args.receipt_date, args.gross_amount,
                                   args.cash_register_number, None, libc_pads_year)
            /\ result # generate_receipt_id(prefix, args.seller_nip, args.receipt_date,
                                            args.gross_amount, args.cash_register_number,
                                            None, libc_pads_year)
    /\ (/\ op = "generate_contract_id"
        /\ args.contract_number = None
        /\ OptionalPart(args.contract_type) \notin {<<>>, <<"">>}) =>
            /\ contract_canonical(args.party1_nip, args.party2_nip, args.contract_date,
                                  None, args.contract_type, libc_pads_year)
               # contract_canonical(args.party1_nip, args.party2_nip, args.contract_date,
                                    args.contract_type, None, libc_pads_year)
            /\ result # generate_contract_id(prefix, args.party1_nip, args.party2_nip,
                                             args.contract_date, args.contract_type, None,
                                             libc_pads_year)

\* C12: a trailing optional field adds a segment only when its canonical value
\* is not empty: whatever the optional arguments of a generate_* call are
\* (absent, empty or white space), its canonical string does not end with an
\* empty segment; and the canonical string of a receipt with neither a receipt
\* number nor a cash register is exactly nip|date|amount.
NoTrailingEmptySegment ==
    (op \in GenerateOps /\ result # InvalidOperation) =>
        /\ Len(str_split(CanonicalOf(op, args, libc_pads_year), "|")) >= 1
        /\ str_split(CanonicalOf(op, args, libc_pads_year), "|")
              [Len(str_split(CanonicalOf(op, args, libc_pads_year), "|"))] # ""
        /\ (/\ op = "generate_receipt_id"
            /\ args.receipt_number = None
            /\ args.cash_register_number = None) =>
                CanonicalOf(op, args, libc_pads_year)
                = str_join("|", <<NIPValidator_normalize(args.seller_nip),
                                  DateNormalizer_normalize(args.receipt_date, libc_pads_year),
                                  AmountNormalizer_normalize(args.gross_amount)>>)

\* The four normalized fields of an invoice.
NormalizedInvoice(seller_nip, invoice_number, issue_date, gross_amount) ==
    <<NIPValidator_normalize(seller_nip), InvoiceNumberNormalizer_normalize(invoice_number),
      DateNormalizer_normalize(issue_date, libc_pads_year),
      AmountNormalizer_normalize(gross_amount)>>

\* C13: distinct invoices get distinct canonical strings: an invoice whose
\* normalized seller NIP, invoice number, issue date and gross amount differ
\* in at least one component from those of the invoice of the call has another
\* canonical string, also when the fields contain the separator "|".
DistinctInvoicesDistinctCanonicalStrings ==
    op = "generate_invoice_id" =>
        \A invoice_number \in FormsOf(InvoiceNumberForms), issue_date \in FormsOf(DateForms) :
            NormalizedInvoice(args.seller_nip, invoice_number, issue_date, args.gross_amount)
            # NormalizedInvoice(args.seller_nip, args.invoice_number, args.issue_date,
                                args.gross_amount)
            => invoice_canonical(args.seller_nip, invoice_number, issue_date,
                                 args.gross_amount, libc_pads_year)
               # invoice_canonical(args.seller_nip, args.invoice_number, args.issue_date,
                                   args.gross_amount, libc_pads_year)

(***************************************************************************)
(* Properties of the extractor, checked under SpecExt.                     *)
(***************************************************************************)

Categories == <<"INVOICE", "RECEIPT", "CONTRACT">>

\* The can_extract confidence of each extractor, in the order of the extractors.
confidences(ocr_result) ==
    <<InvoiceExtractor_can_extract(ocr_result), ReceiptExtractor_can_extract(ocr_result),
      ContractExtractor_can_extract(ocr_result)>>

\* The extractors whose confidence is above 0.4.
above_threshold(confidence) == {i \in 1..3 : float_gt(confidence[i], Float(40, 0))}

\* extraction is that of the extractor of the highest confidence above 0.4, of
\* the earliest of them; without one it is UNKNOWN with the first NIP and date.
chosen_by_confidence(extraction, ocr_result, confidence) ==
    IF above_threshold(confidence) = {}
    THEN /\ extraction = ExtractionResult("UNKNOWN", first_or_none(ocr_result.detected_dates),
                                          first_or_none(ocr_result.detected_nips))
         /\ _map_category_to_type(extraction.category) = "OTHER"
    ELSE \E i \in above_threshold(confidence) :
            /\ extraction.category = Categories[i]
            /\ \A j \in 1..3 : ~float_gt(confidence[j], confidence[i])
            /\ \A j \in 1..(i - 1) : float_gt(confidence[i], confidence[j])

\* C16: DocumentExtractor.extract classifies with the extractor whose
\* can_extract confidence is the highest among those strictly above 0.4; of two
\* extractors with the same highest confidence the earlier in the order
\* Invoice, Receipt, Contract wins; when no confidence is above 0.4 the result
\* is UNKNOWN, which the pipeline maps to OTHER, and carries only the first
\* detected NIP and the first detected date.
ExtractChoosesHighestConfidence ==
    op = "DocumentExtractor.extract" =>
        chosen_by_confidence(result, Scanned[args], confidences(Scanned[args]))

\* The two first of the extractors at the highest confidence, which is above 0.4.
tie_at_the_top(confidence) ==
    \E i \in 1..2, j \in 2..3 :
        /\ i < j
        /\ confidence[i] = confidence[j]
        /\ float_gt(confidence[i], Float(40, 0))
        /\ \A k \in 1..3 : ~float_gt(confidence[k], confidence[i])

\* Two extractors have the same highest confidence above 0.4 and the earlier
\* one has classified.
EarlierExtractorWinsTie ==
    /\ op = "DocumentExtractor.extract"
    /\ tie_at_the_top(confidences(Scanned[args]))
    /\ result.category # "CONTRACT"

\* No confidence is above 0.4 and a NIP and a date were detected.
UnknownCarriesNipAndDate ==
    /\ op = "DocumentExtractor.extract"
    /\ result.category = "UNKNOWN"
    /\ result.issuer_nip # None
    /\ result.document_date # None

\* The number of distinct keywords of a list in a text, case ignored.
keywords_in(keywords, text) ==
    Cardinality({keywords[i] : i \in {j \in DOMAIN keywords :
                                         contains(str_lower(text), keywords[j])}})

\* 1 when the list holds at least one token, else 0.
at_least_one(list) == IF list = <<>> THEN 0 ELSE 1

\* 100 * min(1, 0.15*k + 0.2*[a NIP] + 0.2*[an amount] + 0.2*[a document number])
invoice_hundredths(ocr_result) ==
    LET weighed == 15 * keywords_in(INVOICE_KEYWORDS, ocr_result.full_text)
               + 20 * at_least_one(ocr_result.detected_nips)
               + 20 * at_least_one(ocr_result.detected_amounts)
               + 20 * at_least_one(ocr_result.detected_invoice_numbers)
    IN  IF weighed > 100 THEN 100 ELSE weighed

\* C25: can_extract of the invoice, receipt and contract extractors returns
\* (accepted, confidence) with 0 <= confidence <= 1 and accepted true exactly
\* when confidence > 0.4, a confidence of exactly 0.4 being rejected; the
\* confidence of the invoice extractor is the float of min(1, 0.15*k + 0.2*[at
\* least one NIP] + 0.2*[at least one amount] + 0.2*[at least one document
\* number]), k the number of distinct invoice keywords in the text, and the
\* rounding of its sum never moves it across 0.4.
CanExtractAcceptsAboveThreshold ==
    op = "can_extract" =>
        /\ ~float_gt(Float(0, 0), result[2])
        /\ ~float_gt(result[2], Float(100, 0))
        /\ result[1] = bool(float_gt(result[2], Float(40, 0)))
        /\ result[2] = Float(40, 0) => result[1] = "False"
        /\ result[2].hundredths = 40 => result[2].side = 0
        /\ args.category = "INVOICE" =>
            /\ result[2].hundredths = invoice_hundredths(scanned(args.text))
            /\ result[1] = bool(invoice_hundredths(scanned(args.text)) > 40)

\* The invoice extractor has returned a confidence of exactly 0.4, for a text
\* without keywords in which a NIP and an amount were detected, and rejected.
ExactThresholdRejected ==
    /\ op = "can_extract"
    /\ args.category = "INVOICE"
    /\ result = <<"False", Float(40, 0)>>

(***************************************************************************)
(* Properties of the scanners, checked under SpecScan.                     *)
(***************************************************************************)

\* The matches of each pattern in a text, with where each starts.
RECURSIVE re_finditer_each(_, _)
re_finditer_each(patterns, text) ==
    IF patterns = <<>> THEN <<>>
    ELSE re_finditer(re_match_at(Head(patterns), text), 1)
         \o re_finditer_each(Tail(patterns), text)

\* Where the matches that stand for a token start; tokens[i] is the token of
\* found[i].
starts_of(token, found, tokens) == {found[i].start : i \in {j \in DOMAIN found : tokens[j] = token}}

\* No token precedes one whose first occurrence in the text is earlier.
in_document_order(results, found, tokens) ==
    \A i, j \in DOMAIN results :
        i < j => \E earlier \in starts_of(results[i], found, tokens) :
                    \A later \in starts_of(results[j], found, tokens) : earlier <= later

without_duplicates(results) ==
    \A i, j \in DOMAIN results : results[i] = results[j] => i = j

\* The lists the scanners returned hold no token twice.
DetectedListsWithoutDuplicates ==
    op = "extract_structured_data" =>
        /\ without_duplicates(result.nips)
        /\ without_duplicates(result.amounts)
        /\ without_duplicates(result.dates)
        /\ without_duplicates(result.invoice_numbers)

\* Every tax ID returned is ten digits that pass the checksum.
DetectedNipsAreValid ==
    op = "extract_structured_data" =>
        \A i \in DOMAIN result.nips :
            /\ Len(result.nips[i]) = 10
            /\ NIPValidator_validate(result.nips[i]) = "True"

\* The lists the scanners returned are in the order of the text.
DetectedListsInDocumentOrder ==
    op = "extract_structured_data" =>
        /\ in_document_order(result.nips, re_finditer_each(nip_patterns, args),
                             nip_texts(group_texts(re_finditer_each(nip_patterns, args))))
        /\ in_document_order(result.amounts, re_finditer_each(amount_patterns, args),
                             amount_texts(group_texts(re_finditer_each(amount_patterns, args))))
        /\ in_document_order(result.dates, re_finditer_each(date_patterns, args),
                             group_texts(re_finditer_each(date_patterns, args)))
        /\ in_document_order(result.invoice_numbers,
                             re_finditer_each(invoice_number_patterns, args),
                             number_texts(group_texts(re_finditer_each(invoice_number_patterns,
                                                                       args))))

\* C23: the scanners return each detected list (tax IDs, amounts, dates,
\* document numbers) without duplicates and in the order of the document: a
\* token whose first occurrence is earlier in the text precedes one whose
\* first occurrence is later, whichever pattern matched it; every tax ID
\* returned is ten digits and passes the NIP checksum.
ScannersKeepDocumentOrder ==
    /\ DetectedListsWithoutDuplicates
    /\ DetectedListsInDocumentOrder
    /\ DetectedNipsAreValid

(***************************************************************************)
(* Properties of the pipeline, checked under SpecPipe.                     *)
(***************************************************************************)

\* The calls of history that returned a document.
Returned == {i \in DOMAIN history : history[i].returned.raised = None}

\* C2: processing the same input again returns the same document_id every
\* time, whatever was processed before it, whatever the duplicate cache holds,
\* on whichever pipeline instance and in whichever run of the process.
SameInputSameDocumentId ==
    \A i, j \in Returned :
        (/\ history[i].call.file_path = history[j].call.file_path
         /\ history[i].call.force_type = history[j].call.force_type)
        => history[i].returned.document_id = history[j].returned.document_id

\* C9: the canonical_string of every document that process returns with kind
\* INVOICE, RECEIPT, CONTRACT or OTHER is the string whose digest defines the
\* returned document_id: verify_id(document_id, canonical_string) is true.
ReturnedCanonicalStringVerifies ==
    \A i \in Returned :
        history[i].returned.document_type \in {"INVOICE", "RECEIPT", "CONTRACT", "OTHER"}
        => verify_id(history[i].returned.document_id, history[i].returned.canonical_string)

\* The calls before call i that returned a document with the same canonical
\* string on the same pipeline instance of the same run.
EarlierSame(i) ==
    {j \in Returned :
        /\ j < i
        /\ history[j].call.run = history[i].call.run
        /\ history[j].call.instance = history[i].call.instance
        /\ history[j].returned.canonical_string = history[i].returned.canonical_string}

\* C10: among the calls that return on one pipeline instance, a call reports
\* is_duplicate exactly when an earlier one produced the same canonical
\* string, and then duplicate_of is the identifier the earliest such call
\* returned; otherwise is_duplicate is false and duplicate_of is None.
DuplicateOfEarliestSameCanonical ==
    \A i \in Returned :
        IF EarlierSame(i) = {}
        THEN /\ ~history[i].returned.is_duplicate
             /\ history[i].returned.duplicate_of = None
        ELSE /\ history[i].returned.is_duplicate
             /\ history[i].returned.duplicate_of =
                    history[CHOOSE j \in EarlierSame(i) : \A k \in EarlierSame(i) : j <= k]
                        .returned.document_id

\* Three calls on one instance produced the same canonical string, the first
\* two under different identifiers, and the third names the first.
ThirdCallNamesTheFirst ==
    /\ Len(history) = 3
    /\ EarlierSame(3) = {1, 2}
    /\ history[1].returned.document_id # history[2].returned.document_id
    /\ history[3].returned.is_duplicate
    /\ history[3].returned.duplicate_of = history[1].returned.document_id

SupportedSuffixes ==
    {".pdf", ".png", ".jpg", ".jpeg", ".bmp", ".tiff", ".xml", ".html", ".htm", ".txt"}

\* The files process cannot make a document of: one of a suffix that is not
\* supported, one that cannot be read, a PDF without pages.
CannotBeProcessed(file_path) ==
    \/ path_suffix(file_path) \notin SupportedSuffixes
    \/ ~Files[file_path].readable
    \/ (path_suffix(file_path) = ".pdf" /\ Files[file_path].pages = <<>>)

\* C14: whenever process fails, on a file of a suffix that is not supported, a
\* PDF without pages, a file that cannot be read or one the OCR engine fails
\* on, the error is raised to the caller, no identifier and no canonical
\* string is returned, and the duplicate cache is as it was before the call.
FailedProcessLeavesCache ==
    [][(op' = "process" /\ Len(history') = Len(history) + 1) =>
        /\ CannotBeProcessed(args'.file_path) => result'.raised # None
        /\ result'.raised # None =>
            /\ result'.document_id = None
            /\ result'.canonical_string = None
            /\ processed_ids' = processed_ids]_vars

\* A process call has failed on a file that cannot be read, on a pipeline
\* whose cache holds a document.
FailedOnUnreadableFile ==
    /\ op = "process"
    /\ result.raised \in {RaisedOSError, RaisedOCRError}
    /\ processed_ids[args.instance] # <<>>

\* C15: process_batch attempts every file of its list, going on after a file
\* whose processing fails, and returns an outcome for each file of the list;
\* a file that failed adds nothing to the duplicate cache.
BatchReturnsOutcomePerFile ==
    op = "process_batch" =>
        /\ Len(history) >= Len(args.file_paths)
        /\ \A i \in DOMAIN args.file_paths :
            history[(Len(history) - Len(args.file_paths)) + i].call.file_path
            = args.file_paths[i]
        /\ Len(result.returned) = Len(args.file_paths)
        /\ None \notin DOMAIN processed_ids[args.instance]

\* The identifier of a pipeline of the default prefix for a document of kind
\* document_type: the prefix, the code of the kind, 16 hexadecimal characters.
well_formed(pieces, document_type) ==
    /\ Len(pieces) = 3
    /\ pieces[1] = id_prefix
    /\ pieces[2] = DocumentType[document_type]
    /\ Len(pieces[3]) = 16
    /\ \A i \in 1..16 : CharAt(pieces[3], i) \in UpperHexDigits

\* In the segments of the canonical string of a document of kind
\* document_type, a field the extraction lacks is empty, and the amount 0.00.
absent_is_empty(segments, document_type, extraction) ==
    CASE document_type = "INVOICE" ->
            /\ Len(segments) = 4
            /\ extraction.issuer_nip = None => segments[1] = ""
            /\ extraction.invoice_number = None => segments[2] = ""
            /\ extraction.document_date = None => segments[3] = ""
            /\ extraction.gross_amount = None => segments[4] = "0.00"
      [] document_type = "RECEIPT" ->
            /\ Len(segments) >= 3
            /\ extraction.issuer_nip = None => segments[1] = ""
            /\ extraction.document_date = None => segments[2] = ""
            /\ extraction.gross_amount = None => segments[3] = "0.00"
            /\ (extraction.receipt_number = None /\ extraction.cash_register_number = None)
                    => Len(segments) = 3
      [] document_type = "CONTRACT" ->
            /\ Len(segments) >= 3
            /\ (extraction.issuer_nip = None \/ extraction.party2_nip = None)
                    => segments[1] = ""
            /\ (extraction.issuer_nip = None /\ extraction.party2_nip = None)
                    => segments[2] = ""
            /\ extraction.document_date = None => segments[3] = ""
      [] OTHER ->
            /\ Len(segments) = 3
            /\ extraction.document_date = None => segments[2] = ""
            /\ extraction.issuer_nip = None => segments[3] = ""

ReturnedHere(instance, c) ==
    {i \in Returned :
        /\ history[i].call.run = run
        /\ history[i].call.instance = instance
        /\ history[i].returned.canonical_string = c}

\* Every key of a cache is the canonical string of a process call that
\* returned, with the identifier the first such call returned.
StoredByFirstCall ==
    \A instance \in Instances :
        \A c \in DOMAIN processed_ids[instance] :
            /\ ReturnedHere(instance, c) # {}
            /\ processed_ids[instance][c] =
                    history[CHOOSE i \in ReturnedHere(instance, c) :
                                \A j \in ReturnedHere(instance, c) : i <= j]
                        .returned.document_id

\* No operation on the pipelines of a run removes a key of a cache or changes
\* the identifier under one.
KeysStay ==
    run' = run =>
        \A instance \in Instances :
            \A c \in DOMAIN processed_ids[instance] :
                /\ c \in DOMAIN processed_ids'[instance]
                /\ processed_ids'[instance][c] = processed_ids[instance][c]

\* C20: the duplicate cache is insert-only: in every reachable state of a
\* pipeline instance no operation (process, process_batch, verify_document,
\* get_canonical_string) removes a key or changes the identifier stored under
\* a key, and every stored key is the canonical string of a process call that
\* completed, mapped to the identifier the first such call returned.
CacheIsInsertOnly == []StoredByFirstCall /\ [][KeysStay]_vars

\* get_canonical_string has processed a document whose canonical string an
\* earlier call stored under another identifier, which the cache still holds
\* beside another key.
CacheKeptFirstIdentifier ==
    /\ op = "get_canonical_string"
    /\ history[Len(history)].returned.is_duplicate
    /\ history[Len(history)].returned.document_id
       # history[Len(history)].returned.duplicate_of
    /\ processed_ids[args.instance][result.returned]
       = history[Len(history)].returned.duplicate_of
    /\ Cardinality(DOMAIN processed_ids[args.instance]) = 2

\* C28: whenever process reports is_duplicate, duplicate_of is the
\* document_id returned by that same call, in every sequence of process calls
\* on one pipeline instance, with or without force_type.
DuplicateOfIsTheReturnedId ==
    \A i \in Returned :
        history[i].returned.is_duplicate
        => history[i].returned.duplicate_of = history[i].returned.document_id

\* The same of the calls of an instance none of which forced a kind.
DuplicateOfIsTheReturnedIdUnforced ==
    \A i \in Returned :
        (/\ history[i].returned.is_duplicate
         /\ \A j \in EarlierSame(i) \cup {i} : history[j].call.force_type = None)
        => history[i].returned.duplicate_of = history[i].returned.document_id

\* The process call that the operation of a step made last.
LastCall == history'[Len(history')]

\* A step of verify_document or get_canonical_string is a process call of the
\* file without a forced kind; when it returns a document, the cache of the
\* instance holds the canonical string of the document afterwards, under the
\* identifier of the document when the string was not there before;
\* verify_document returns whether the identifier is the expected one.
RunsProcess ==
    (op' \in {"verify_document", "get_canonical_string"} /\ Len(history') = Len(history) + 1) =>
        /\ LastCall.call = Call(args'.instance, args'.file_path, None)
        /\ result'.raised = LastCall.returned.raised
        /\ LastCall.returned.raised = None =>
            /\ LastCall.returned.canonical_string \in DOMAIN processed_ids'[args'.instance]
            /\ LastCall.returned.is_duplicate
               = (LastCall.returned.canonical_string \in DOMAIN processed_ids[args'.instance])
            /\ ~LastCall.returned.is_duplicate =>
                processed_ids'[args'.instance][LastCall.returned.canonical_string]
                = LastCall.returned.document_id
            /\ op' = "verify_document" =>
                result'.returned = bool(LastCall.returned.document_id = args'.expected_id)
            /\ op' = "get_canonical_string" =>
                result'.returned = LastCall.returned.canonical_string

\* A process call that follows one of the two on the same pipeline and makes
\* the same canonical string reports a duplicate.
SeenByTheNextProcess ==
    (/\ op \in {"verify_document", "get_canonical_string"}
     /\ result.raised = None
     /\ op' = "process"
     /\ Len(history') = Len(history) + 1
     /\ args'.instance = args.instance
     /\ result'.raised = None
     /\ result'.canonical_string = history[Len(history)].returned.canonical_string)
    => /\ result'.is_duplicate
       /\ result'.duplicate_of
          = processed_ids[args.instance][history[Len(history)].returned.canonical_string]

\* C29: verify_document and get_canonical_string are not read-only: each runs
\* the whole process operation, so it inserts the canonical string of the file
\* into the duplicate cache when it is new; a document first seen through
\* verify_document is reported is_duplicate by a later process of the same
\* content on the same pipeline, and verify_document returns exactly
\* (process(file).document_id == expected_id).
VerifyAndCanonicalStringRunProcess == [][RunsProcess /\ SeenByTheNextProcess]_vars

\* verify_document has returned False for a file that no call had processed
\* on the pipeline, whose cache holds the canonical string of the file since.
VerifyDocumentFilledTheCache ==
    /\ op = "verify_document"
    /\ Len(history) = 1
    /\ result.returned = "False"
    /\ ~history[1].returned.is_duplicate
    /\ DOMAIN processed_ids[args.instance] = {history[1].returned.canonical_string}
    /\ processed_ids[args.instance][history[1].returned.canonical_string]
       # args.expected_id

\* The identifier of the CONTRACT recipe of the generator for an extraction.
contract_id_of(extraction) ==
    generate_contract_id(prefix, Or(extraction.issuer_nip, ""),
                         Or(extraction.party2_nip, ""), Or(extraction.document_date, ""),
                         extraction.contract_number, extraction.contract_type,
                         libc_pads_year)

\* C24: for a document classified CONTRACT the identifier of the pipeline is
\* that of the CONTRACT recipe of the generator on the extracted fields, the
\* optional contract number and contract type included:
\* generate_contract_id(issuer_nip, party2_nip, document_date,
\* contract_number, contract_type); so two contracts whose extraction differs
\* only in contract_type get different identifiers.
ContractIdHasNumberAndType ==
    /\ \A i \in Returned :
        history[i].returned.document_type = "CONTRACT"
        => history[i].returned.document_id = contract_id_of(history[i].returned.extraction)
    /\ \A i, j \in Returned :
        (/\ history[i].returned.document_type = "CONTRACT"
         /\ history[j].returned.document_type = "CONTRACT"
         /\ history[i].returned.extraction.contract_type
            # history[j].returned.extraction.contract_type
         /\ [history[i].returned.extraction EXCEPT !.contract_type = None]
            = [history[j].returned.extraction EXCEPT !.contract_type = None])
        => history[i].returned.document_id # history[j].returned.document_id

\* The identifier of the pipeline is that of the recipe without the type.
ContractIdHasNumber ==
    \A i \in Returned :
        history[i].returned.document_type = "CONTRACT"
        => history[i].returned.document_id
           = contract_id_of([history[i].returned.extraction EXCEPT !.contract_type = None])

DetectedLists ==
    {"detected_nips", "detected_amounts", "detected_dates", "detected_invoice_numbers"}

\* What the engine read on each page of the PDFs of the library.
PdfPages ==
    [file_path \in {f \in DOMAIN Files : path_suffix(f) = ".pdf"} |->
        [i \in DOMAIN Files[file_path].pages |-> DocumentOCRResult(Files[file_path].pages[i])]]

\* The tokens of a detected list of the pages, each once, in the order of
\* their first occurrence: by page, then within the page.
RECURSIVE in_page_order(_, _)
in_page_order(pages, detected) ==
    IF pages = <<>> THEN <<>>
    ELSE append_new(<<>>, Head(pages)[detected] \o in_page_order(Tail(pages), detected))

\* The calls that returned a document of a PDF.
ReturnedPdf == {i \in Returned : path_suffix(history[i].call.file_path) = ".pdf"}

\* The merged confidence is the mean of the confidences of the pages.
MergedConfidenceIsTheMean ==
    \A i \in ReturnedPdf :
        history[i].returned.ocr_confidence
        = Mean(sum(Files[history[i].call.file_path].confidences),
               Len(Files[history[i].call.file_path].pages))

\* Each merged list holds the tokens of the pages, each once.
MergedListsHoldEveryTokenOnce ==
    \A i \in ReturnedPdf :
        \A detected \in DetectedLists :
            /\ without_duplicates(history[i].returned.ocr_result[detected])
            /\ {history[i].returned.ocr_result[detected][k] :
                    k \in DOMAIN history[i].returned.ocr_result[detected]}
               = {in_page_order(PdfPages[history[i].call.file_path], detected)[k] :
                    k \in DOMAIN in_page_order(PdfPages[history[i].call.file_path], detected)}

\* C22: when the pipeline merges the pages of a PDF, each merged detected
\* list (tax IDs, amounts, dates, document numbers) holds every token once in
\* the order of first occurrence (by page, then within the page), so the
\* issuer NIP the extractors pick is the first NIP of the first page that has
\* one; the merged confidence is the mean of the confidences of the pages.
MergedListsInPageOrder ==
    /\ MergedConfidenceIsTheMean
    /\ \A i \in ReturnedPdf :
        /\ \A detected \in DetectedLists :
            history[i].returned.ocr_result[detected]
            = in_page_order(PdfPages[history[i].call.file_path], detected)
        /\ in_page_order(PdfPages[history[i].call.file_path], "detected_nips") # <<>>
           => history[i].returned.extraction.issuer_nip
              = in_page_order(PdfPages[history[i].call.file_path], "detected_nips")[1]

(***************************************************************************)
(* Properties of concurrent process calls, checked under SpecConc.         *)
(***************************************************************************)

\* The threads that are in process with canonical string c on an instance
\* and have not returned.
Calling(instance, c) ==
    {thread \in Threads :
        /\ in_flight[thread].pc \in {"generated", "inserting", "returning"}
        /\ in_flight[thread].instance = instance
        /\ generated_by(in_flight[thread]).canonical_string = c}

\* The calls that returned a document with canonical string c on an instance
\* and reported it as not seen before.
FirstSeen(instance, c) ==
    {i \in ReturnedHere(instance, c) : ~history[i].returned.is_duplicate}

\* No two threads are between the test and the assignment of step 5 on the
\* same pipeline.
LookupAndInsertNotInterleaved ==
    \A t, u \in Threads :
        (/\ t # u
         /\ in_flight[t].pc = "inserting"
         /\ in_flight[u].pc = "inserting")
        => in_flight[t].instance # in_flight[u].instance

\* C21: access to the duplicate cache is serialized: when several process
\* calls run concurrently on one pipeline instance, the lookup and insert of
\* one call are not interleaved with those of another, so among concurrent
\* calls that share a canonical string exactly one reports is_duplicate =
\* false and all the others report is_duplicate = true.
ConcurrentCallsOneFirstSeen ==
    /\ LookupAndInsertNotInterleaved
    /\ \A instance \in Instances :
        \A i \in Returned :
            history[i].call.instance = instance =>
                /\ Cardinality(FirstSeen(instance, history[i].returned.canonical_string)) <= 1
                /\ Calling(instance, history[i].returned.canonical_string) = {}
                   => Cardinality(FirstSeen(instance,
                                            history[i].returned.canonical_string)) = 1

\* The second part alone: what the callers see.
OneFirstSeenAmongReturned ==
    \A instance \in Instances :
        \A i \in Returned :
            history[i].call.instance = instance =>
                Cardinality(FirstSeen(instance, history[i].returned.canonical_string)) <= 1

(***************************************************************************)
(* Properties of the helpers of the module, checked under SpecHelpers.     *)
(***************************************************************************)

\* The calls before call i that returned a document with the same canonical
\* string, with no call from there to call i that asked for another engine.
EarlierSameEngine(i) ==
    {j \in Returned :
        /\ j < i
        /\ history[j].returned.canonical_string = history[i].returned.canonical_string
        /\ \A k \in j..i : history[k].call.ocr_engine = history[i].call.ocr_engine}

\* The calls since the engine asked for changed last.
SinceTheSwitch ==
    {i \in Returned :
        \A k \in i..Len(history) :
            history[k].call.ocr_engine = history[Len(history)].call.ocr_engine}

\* C30: process_document, get_document_id and verify_document_id share one
\* lazily created default pipeline and its duplicate cache for as long as the
\* engine asked for stays the same; a call that asks for another engine
\* replaces the default pipeline with a fresh one whose cache is empty, after
\* which documents seen before the switch are not reported as duplicates.
HelpersShareThePipelineOfTheEngine ==
    /\ history = <<>> => _default_pipeline = NoPipeline
    /\ history # <<>> =>
        /\ _default_pipeline.preferred_engine = history[Len(history)].call.ocr_engine
        /\ DOMAIN _default_pipeline._processed_ids
           = {history[i].returned.canonical_string : i \in SinceTheSwitch}
    /\ \A i \in DOMAIN history :
        history[i].call.helper \in {"get_document_id", "verify_document_id"}
        => history[i].call.ocr_engine = "tesseract"
    /\ \A i \in Returned :
        IF EarlierSameEngine(i) = {}
        THEN /\ ~history[i].returned.is_duplicate
             /\ history[i].returned.duplicate_of = None
        ELSE /\ history[i].returned.is_duplicate
             /\ history[i].returned.duplicate_of =
                    history[CHOOSE j \in EarlierSameEngine(i) :
                                \A k \in EarlierSameEngine(i) : j <= k].returned.document_id

\* A document was processed twice by the default pipeline of one engine, the
\* second call reporting a duplicate, and then under another engine, which
\* reported it as not seen before.
SwitchForgotTheDocument ==
    /\ Len(history) = 3
    /\ \A i \in 1..3 : i \in Returned
    /\ history[1].returned.canonical_string = history[3].returned.canonical_string
    /\ history[2].returned.canonical_string = history[3].returned.canonical_string
    /\ history[1].call.ocr_engine = history[2].call.ocr_engine
    /\ history[2].call.helper # history[1].call.helper
    /\ history[2].returned.is_duplicate
    /\ history[3].call.ocr_engine # history[2].call.ocr_engine
    /\ ~history[3].returned.is_duplicate
    /\ DOMAIN _default_pipeline._processed_ids = {history[3].returned.canonical_string}

(***************************************************************************)
(* Properties of the universal generator, checked under SpecUniv.          *)
(***************************************************************************)

\* The call has returned an identifier.
ReturnedUniversalId ==
    /\ op = "generate_universal_id"
    /\ result \notin {RaisedFileNotFoundError, RaisedImportError}

\* The segment of an optional feature: empty when the feature is missing.
segment_of(feature) == IF feature = None THEN "" ELSE feature

\* math.floor(t) of a float of seconds
floor_seconds(thousandths) == thousandths \div 1000

\* The twelve segments in their order, a missing feature giving an empty one
\* and a time stamp its floor.
twelve_segments(features) ==
    <<features.file_type,
      int_str(features.file_size),
      features.content_hash,
      segment_of(features.visual_hash),
      segment_of(features.text_hash),
      segment_of(features.metadata_hash),
      segment_of(features.structure_hash),
      segment_of(features.color_profile_hash),
      features.dimensions,
      IF features.page_count = NoNumber THEN "" ELSE int_str(features.page_count[1]),
      IF features.creation_time = NoNumber THEN ""
      ELSE int_str(floor_seconds(features.creation_time[1])),
      IF features.modification_time = NoNumber THEN ""
      ELSE int_str(floor_seconds(features.modification_time[1]))>>

\* PDF for PDFs, IMG for image files, otherwise the first three characters of
\* the file kind.
kind_code(file_path, file_type) ==
    CASE path_suffix(file_path) = ".pdf" -> "PDF"
      [] path_suffix(file_path) \in ImageSuffixes -> "IMG"
      [] OTHER -> SubSeq(file_type, 1, IF Len(file_type) < 3 THEN Len(file_type) ELSE 3)

\* The identifier of a prefix, a kind code and a canonical string.
identifier_of(prefix_, code, canonical_string) ==
    prefix_ \o "-" \o code \o "-" \o str_upper(hexdigest16(canonical_string))

\* C27: generate_universal_id builds its canonical string from exactly twelve
\* segments joined by "|", in the order file_kind, file_size, content_hash,
\* visual_hash, text_hash, metadata_hash, structure_hash, color_profile_hash,
\* dimensions, page_count, floor(creation_time), floor(modification_time); a
\* missing feature gives an empty segment, so that the number of segments and
\* their positions never change; the kind code is PDF for PDFs, IMG for image
\* files and otherwise the first three characters of the file kind.
UniversalCanonicalHasTwelveSegments ==
    ReturnedUniversalId =>
        /\ str_split(universal_canonical_string(features_of(args)), "|")
           = twelve_segments(features_of(args))
        /\ result = identifier_of(prefix, kind_code(args.file_path, features_of(args).file_type),
                                  str_join("|", twelve_segments(features_of(args))))

\* The twelve segments as the code writes them: a time stamp cut off towards
\* zero, and empty when it is 0.
twelve_segments_written(features) ==
    [twelve_segments(features)
     EXCEPT ![11] = seconds_or_empty(features.creation_time),
            ![12] = seconds_or_empty(features.modification_time)]

\* What holds of C27: for a file whose suffix holds no "|" and is not
\* ".image", the identifier is that of the twelve segments, with the time
\* stamps cut off towards zero and left empty when they are 0.
UniversalCanonicalOfPlainSuffix ==
    (/\ ReturnedUniversalId
     /\ path_suffix(args.file_path) \notin {".x|y", ".image"}) =>
        /\ str_split(universal_canonical_string(features_of(args)), "|")
           = twelve_segments_written(features_of(args))
        /\ result = identifier_of(prefix, kind_code(args.file_path, features_of(args).file_type),
                                  str_join("|", twelve_segments_written(features_of(args))))

====
